---- MODULE Spec2Model ----
(***************************************************************************)
(* A model of the spacemath game session: the GameScene state machine, the *)
(* MathGenerator it consumes, the EventBus it publishes on and the host    *)
(* (Alpine application) that drives it.                                    *)
(*                                                                         *)
(* The repository holds two texts of the GameScene class                   *)
(* (src/src/game/scenes/GameScene.ts and src/unnamed/part_003).  They have *)
(* the same handlers; they differ in the number of lives a session starts  *)
(* with and in whether lives are announced on the channel.  The field      *)
(* scene.file says which text the scene object is an instance of.          *)
(*                                                                         *)
(* Positions of sprites are computed by the physics engine and are not     *)
(* modelled: a frame update receives which targets a bullet has reached    *)
(* and whether the targets have left the play bounds as inputs.            *)
(***************************************************************************)
EXTENDS Integers, Sequences, FiniteSets, TLC

VARIABLES
    scene,      \* the GameScene object: its fields, its clock (time) and its Phaser status
    listeners,  \* EventBus: number of subscriptions the scene has registered per host event
    elapsed,    \* Date.now() - scene.problemStartTime in ms, counted up to TimeCap
    pending,    \* host: setTimeout callbacks of startGame not yet run (remaining ms each)
    host,       \* the Alpine application: screen, gameMode, selectedDifficulty, gameState
    emitted,    \* the events published on the channel during the last step, in order
    resolved,   \* the answer resolutions made during the last step, in order (before/after)
    hist,       \* history of the running session, kept for the properties
    call        \* a call of a MathGenerator method followed on its own: its position,
                \* its arguments, its local variables and its result

vars == <<scene, listeners, elapsed, pending, host, emitted, resolved, hist, call>>

----------------------------------------------------------------------------
(* Bounds of the model *)

TimeCap == 3000         \* elapsed times are counted up to here (the time-bonus window)
MaxSessions == 2        \* number of sessions started (scene.start calls)
MaxCorrect == 1         \* steps with a correct resolution per session
MaxStreak == 11         \* correct resolutions per session in the scoring runs
MaxWrong == 1           \* incorrect resolutions in the scoring runs
MaxDelayed == 1         \* delayed calls outstanding at a time in the scoring runs
MaxHitsPerFrame == 2    \* bullets reaching a target within one frame
MaxPendingStarts == 1   \* startGame timeouts outstanding at a time
MaxOverdraw == 1        \* how far below 0 the lives are followed
MaxAnswer == 2          \* largest correctAnswer of the generateWrongAnswers calls followed
MaxCount == 5           \* largest count of the generateWrongAnswers calls followed
StoredXps == {0, 499, 500, 20000}    \* xp of the profiles found in storage
SessionLengths == {0, 1, 10, 30, 50, 100, 200, 600}   \* correct answers of a session
MaxCredited == 2        \* correct resolutions per session in the resubmission runs
CareerXp == 490         \* xp of the profile when the sessions followed begin
MaxOperand == 3         \* largest operand of the generateNewProblem calls followed
MaxXp == 20100          \* largest xp of the evolution calls followed

TickSteps == {1500}                 \* amounts by which the clocks advance
Difficulties == {1}                 \* host.selectedDifficulty
OperandDraws == {<<1, 1>>, <<2, 1>>}  \* outcomes of the two randomInt calls for operands
GameFiles == {"part_003", "GameScene.ts"}

Min(a, b) == IF a < b THEN a ELSE b
Max(a, b) == IF a > b THEN a ELSE b
Range(s) == {s[i] : i \in 1..Len(s)}

----------------------------------------------------------------------------
(* MathGenerator *)

DIFFICULTY_CONFIGS ==
    << [level |-> 1, operations |-> <<"addition">>, maxNumber |-> 10, maxMultiplier |-> 5],
       [level |-> 2, operations |-> <<"addition", "subtraction">>, maxNumber |-> 15, maxMultiplier |-> 5],
       [level |-> 3, operations |-> <<"addition", "subtraction", "multiplication">>,
        maxNumber |-> 20, maxMultiplier |-> 5],
       [level |-> 4, operations |-> <<"addition", "subtraction", "multiplication", "division">>,
        maxNumber |-> 50, maxMultiplier |-> 10],
       [level |-> 5, operations |-> <<"addition", "subtraction", "multiplication", "division">>,
        maxNumber |-> 100, maxMultiplier |-> 12] >>

\* a variant of the constructor with a fault: the level is taken as requested
MathGeneratorUnclamped(difficultyLevel) == difficultyLevel

\* new MathGenerator(difficultyLevel): the clamped level; config is DIFFICULTY_CONFIGS[level]
MathGenerator(difficultyLevel) == Min(5, Max(1, difficultyLevel))

\* setDifficulty(level): the same clamp, on an existing generator
setDifficulty(level) == Min(5, Max(1, level))

config(level) == DIFFICULTY_CONFIGS[level]

generateAddition(a, b) ==
    [operand1 |-> a, operand2 |-> b, operation |-> "addition", answer |-> a + b,
     equation |-> ToString(a) \o " + " \o ToString(b) \o " = ?"]

\* a variant of generateSubtraction with a fault: the operands are not ordered
generateSubtractionUnordered(a, b) ==
    [operand1 |-> a, operand2 |-> b, operation |-> "subtraction", answer |-> a - b,
     equation |-> ToString(a) \o " - " \o ToString(b) \o " = ?"]

generateSubtraction(a, b) ==
    LET operand1 == IF b > a THEN b ELSE a
        operand2 == IF b > a THEN a ELSE b
    IN [operand1 |-> operand1, operand2 |-> operand2, operation |-> "subtraction",
        answer |-> operand1 - operand2,
        equation |-> ToString(operand1) \o " - " \o ToString(operand2) \o " = ?"]

generateMultiplication(a, b) ==
    [operand1 |-> a, operand2 |-> b, operation |-> "multiplication", answer |-> a * b,
     equation |-> ToString(a) \o " × " \o ToString(b) \o " = ?"]

\* a variant of generateDivision with a fault: the dividend is the second draw
generateDivisionOfDraw(divisor, quotient) ==
    [operand1 |-> quotient, operand2 |-> divisor, operation |-> "division",
     answer |-> quotient \div divisor,
     equation |-> ToString(quotient) \o " ÷ " \o ToString(divisor) \o " = ?"]

generateDivision(divisor, quotient) ==
    LET dividend == divisor * quotient
    IN [operand1 |-> dividend, operand2 |-> divisor, operation |-> "division",
        answer |-> quotient,
        equation |-> ToString(dividend) \o " ÷ " \o ToString(divisor) \o " = ?"]

\* a variant of the choice below with a fault: a preferred operation is always taken
operationOfAnyPreferred(level, preferredOperation, choice) ==
    IF preferredOperation # <<>> THEN preferredOperation[1]
    ELSE config(level).operations[choice]

\* the operation generate settles on: preferredOperation is <<>> when the argument is
\* left out and <<op>> otherwise; choice is the index randomChoice picks among
\* config.operations
operationOf(level, preferredOperation, choice) ==
    IF preferredOperation # <<>> /\ preferredOperation[1] \in Range(config(level).operations)
    THEN preferredOperation[1]
    ELSE config(level).operations[choice]

\* generate(preferredOperation): a and b are the two randomInt outcomes
generate(level, preferredOperation, choice, a, b) ==
    LET operation == operationOf(level, preferredOperation, choice)
    IN CASE operation = "addition" -> generateAddition(a, b)
         [] operation = "subtraction" -> generateSubtraction(a, b)
         [] operation = "multiplication" -> generateMultiplication(a, b)
         [] operation = "division" -> generateDivision(a, b)
         [] OTHER -> generateAddition(a, b)

\* The outcomes of one attempt of the randomized phase: the offset and the sign.
\* draws is the list of outcomes; attempt k uses draws[k], cyclically.
RECURSIVE randomPhase(_, _, _, _, _)
randomPhase(correctAnswer, count, draws, attempts, wrongAnswers) ==
    IF Len(wrongAnswers) < count /\ attempts < 100
    THEN LET d == draws[(attempts % Len(draws)) + 1]
             wrongAnswer == correctAnswer + d.offset * d.sign
         IN randomPhase(correctAnswer, count, draws, attempts + 1,
                IF wrongAnswer > 0 /\ wrongAnswer # correctAnswer
                   /\ wrongAnswer \notin Range(wrongAnswers)
                THEN Append(wrongAnswers, wrongAnswer) ELSE wrongAnswers)
    ELSE wrongAnswers

RECURSIVE fallbackPhase(_, _, _, _)
fallbackPhase(correctAnswer, count, fallbackOffset, wrongAnswers) ==
    IF Len(wrongAnswers) < count
    THEN LET candidate == correctAnswer + fallbackOffset
         IN fallbackPhase(correctAnswer, count,
                IF fallbackOffset > 0 THEN -fallbackOffset ELSE (-fallbackOffset) + 1,
                IF candidate > 0 /\ candidate # correctAnswer
                   /\ candidate \notin Range(wrongAnswers)
                THEN Append(wrongAnswers, candidate) ELSE wrongAnswers)
    ELSE wrongAnswers

generateWrongAnswers(correctAnswer, count, draws) ==
    fallbackPhase(correctAnswer, count, 1, randomPhase(correctAnswer, count, draws, 0, <<>>))

----------------------------------------------------------------------------
(* EventBus: emit delivers synchronously; c.out collects what was published *)

Emit(c, type, data) == [c EXCEPT !.out = Append(@, [type |-> type, data |-> data])]

\* the counters and the problem of a scene, as the properties speak of them
View(s) == [score |-> s.score, streak |-> s.streak, bestStreak |-> s.bestStreak,
            correctAnswers |-> s.correctAnswers, xpEarned |-> s.xpEarned,
            playerLives |-> s.playerLives, currentProblem |-> s.currentProblem,
            isGameOver |-> s.isGameOver]

\* records one resolution: what caused it (by), the scene before and after the
\* handler ran, the events the handler published and the time t since problemStartTime
Resolution(kind, by, c, c2, t) ==
    [c2 EXCEPT !.log = Append(@, [kind |-> kind, by |-> by, pre |-> View(c.s),
                                   post |-> View(c2.s),
                                   events |-> SubSeq(c2.out, Len(c.out) + 1, Len(c2.out)),
                                   at |-> t])]

----------------------------------------------------------------------------
(* GameScene *)

\* the fields of a GameScene object before its first init (the class's initialisers)
NewScene(file) ==
    [file |-> file, gameMode |-> "shoot", difficulty |-> 1, mathGenerator |-> 0,
     currentProblem |-> <<>>, score |-> 0, streak |-> 0, bestStreak |-> 0,
     correctAnswers |-> 0, xpEarned |-> 0,
     isGameOver |-> FALSE, isPaused |-> FALSE,
     playerLives |-> IF file = "part_003" THEN 5 ELSE 3,
     enemies |-> <<>>, time |-> <<>>, status |-> "none"]

\* a handler runs on a context c: the scene c.s, the events published so far c.out,
\* the resolutions made so far c.log, whether an exception has escaped (c.thrown) and
\* whether problemStartTime was set to the current time (c.restart).  The parameter t
\* of a handler is Date.now() - problemStartTime when it runs.
Ctx(s) == [s |-> s, out |-> <<>>, log |-> <<>>, thrown |-> FALSE, restart |-> FALSE]

\* this.time.delayedCall(delay, callback): every callback of the class requests the
\* next problem, so a pending call is its remaining delay
delayedCall(c, delay) == [c EXCEPT !.s.time = Append(@, delay)]

emitLivesUpdate(c) ==
    IF c.s.file = "part_003"
    THEN Emit(c, "player:lives", [lives |-> c.s.playerLives])
    ELSE c

init(c, data) ==
    emitLivesUpdate(
        [c EXCEPT !.s.gameMode = data.mode, !.s.difficulty = data.difficulty,
                  !.s.score = 0, !.s.streak = 0, !.s.bestStreak = 0,
                  !.s.correctAnswers = 0, !.s.xpEarned = 0,
                  !.s.isGameOver = FALSE, !.s.isPaused = FALSE,
                  !.s.playerLives = IF c.s.file = "part_003" THEN 5 ELSE 3,
                  !.s.currentProblem = <<>>, !.s.enemies = <<>>])

\* create(): the subscriptions it registers are counted by the caller (listeners)
create(c) ==
    delayedCall([c EXCEPT !.s.mathGenerator = MathGenerator(c.s.difficulty)], 500)

gameOver(c) ==
    Emit([c EXCEPT !.s.isGameOver = TRUE], "game:over",
         [score |-> c.s.score, correct |-> c.s.correctAnswers,
          xpEarned |-> c.s.xpEarned, bestStreak |-> c.s.bestStreak])

\* variants of handleCorrectAnswer with a fault: the streak bonus without its cap,
\* the streak bonus taken from the streak before it is incremented, and the xp of the
\* answer stored instead of added
handleCorrectAnswerUncapped(c, t) ==
    LET streak == c.s.streak + 1
        bestStreak == IF streak > c.s.bestStreak THEN streak ELSE c.s.bestStreak
        timeBonus == IF t < 3000 THEN 5 ELSE 0
        streakBonus == streak * 2
        xp == 10 + timeBonus + streakBonus
        c1 == [c EXCEPT !.s.correctAnswers = @ + 1, !.s.streak = streak,
                        !.s.bestStreak = bestStreak, !.s.xpEarned = @ + xp,
                        !.s.score = @ + 100 + streakBonus * 5]
        c2 == Emit(c1, "answer:correct", [xp |-> xp, streak |-> c1.s.streak])
        c3 == Emit(c2, "score:update", [score |-> c2.s.score, streak |-> c2.s.streak])
    IN delayedCall(c3, 800)

handleCorrectAnswerStaleStreak(c, t) ==
    LET streak == c.s.streak + 1
        bestStreak == IF streak > c.s.bestStreak THEN streak ELSE c.s.bestStreak
        timeBonus == IF t < 3000 THEN 5 ELSE 0
        streakBonus == Min(20, c.s.streak * 2)
        xp == 10 + timeBonus + streakBonus
        c1 == [c EXCEPT !.s.correctAnswers = @ + 1, !.s.streak = streak,
                        !.s.bestStreak = bestStreak, !.s.xpEarned = @ + xp,
                        !.s.score = @ + 100 + streakBonus * 5]
        c2 == Emit(c1, "answer:correct", [xp |-> xp, streak |-> c1.s.streak])
        c3 == Emit(c2, "score:update", [score |-> c2.s.score, streak |-> c2.s.streak])
    IN delayedCall(c3, 800)

handleCorrectAnswerStoresXp(c, t) ==
    LET streak == c.s.streak + 1
        bestStreak == IF streak > c.s.bestStreak THEN streak ELSE c.s.bestStreak
        timeBonus == IF t < 3000 THEN 5 ELSE 0
        streakBonus == Min(20, streak * 2)
        xp == 10 + timeBonus + streakBonus
        c1 == [c EXCEPT !.s.correctAnswers = @ + 1, !.s.streak = streak,
                        !.s.bestStreak = bestStreak, !.s.xpEarned = xp,
                        !.s.score = @ + 100 + streakBonus * 5]
        c2 == Emit(c1, "answer:correct", [xp |-> xp, streak |-> c1.s.streak])
        c3 == Emit(c2, "score:update", [score |-> c2.s.score, streak |-> c2.s.streak])
    IN delayedCall(c3, 800)

\* a variant that does not schedule the next problem
handleCorrectAnswerUnscheduled(c, t) ==
    LET streak == c.s.streak + 1
        bestStreak == IF streak > c.s.bestStreak THEN streak ELSE c.s.bestStreak
        timeBonus == IF t < 3000 THEN 5 ELSE 0
        streakBonus == Min(20, streak * 2)
        xp == 10 + timeBonus + streakBonus
        c1 == [c EXCEPT !.s.correctAnswers = @ + 1, !.s.streak = streak,
                        !.s.bestStreak = bestStreak, !.s.xpEarned = @ + xp,
                        !.s.score = @ + 100 + streakBonus * 5]
        c2 == Emit(c1, "answer:correct", [xp |-> xp, streak |-> c1.s.streak])
    IN Emit(c2, "score:update", [score |-> c2.s.score, streak |-> c2.s.streak])

\* a variant that leaves bestStreak as it was
handleCorrectAnswerKeepsBest(c, t) ==
    LET streak == c.s.streak + 1
        timeBonus == IF t < 3000 THEN 5 ELSE 0
        streakBonus == Min(20, streak * 2)
        xp == 10 + timeBonus + streakBonus
        c1 == [c EXCEPT !.s.correctAnswers = @ + 1, !.s.streak = streak,
                        !.s.xpEarned = @ + xp,
                        !.s.score = @ + 100 + streakBonus * 5]
        c2 == Emit(c1, "answer:correct", [xp |-> xp, streak |-> c1.s.streak])
        c3 == Emit(c2, "score:update", [score |-> c2.s.score, streak |-> c2.s.streak])
    IN delayedCall(c3, 800)

handleCorrectAnswer(c, t) ==
    LET streak == c.s.streak + 1
        bestStreak == IF streak > c.s.bestStreak THEN streak ELSE c.s.bestStreak
        timeBonus == IF t < 3000 THEN 5 ELSE 0
        streakBonus == Min(20, streak * 2)
        xp == 10 + timeBonus + streakBonus
        c1 == [c EXCEPT !.s.correctAnswers = @ + 1, !.s.streak = streak,
                        !.s.bestStreak = bestStreak, !.s.xpEarned = @ + xp,
                        !.s.score = @ + 100 + streakBonus * 5]
        c2 == Emit(c1, "answer:correct", [xp |-> xp, streak |-> c1.s.streak])
        c3 == Emit(c2, "score:update", [score |-> c2.s.score, streak |-> c2.s.streak])
    IN delayedCall(c3, 800)

\* this.cameras.main.flash: the camera manager drops its main camera when the scene
\* shuts down, so the call throws on a stopped scene
flash(c) == IF c.s.status = "stopped" THEN [c EXCEPT !.thrown = TRUE] ELSE c

\* a variant of handleWrongAnswer with a fault: the streak is not reset
handleWrongAnswerKeepsStreak(c) ==
    LET c1 == [c EXCEPT !.s.playerLives = @ - 1]
        c2 == emitLivesUpdate(c1)
        c3 == Emit(c2, "answer:wrong", <<>>)
        c4 == Emit(c3, "score:update", [score |-> c3.s.score, streak |-> c3.s.streak])
        c5 == flash(c4)
    IN IF c5.thrown THEN c5
       ELSE IF c5.s.playerLives <= 0 THEN gameOver(c5) ELSE c5

handleWrongAnswer(c) ==
    LET c1 == [c EXCEPT !.s.streak = 0, !.s.playerLives = @ - 1]
        c2 == emitLivesUpdate(c1)
        c3 == Emit(c2, "answer:wrong", <<>>)
        c4 == Emit(c3, "score:update", [score |-> c3.s.score, streak |-> c3.s.streak])
        c5 == flash(c4)
    IN IF c5.thrown THEN c5
       ELSE IF c5.s.playerLives <= 0 THEN gameOver(c5) ELSE c5

\* Fisher-Yates: for i from the last index down to 1, swap with index js[i] in 0..i
\* (indices here are 0-based as in the source; answers is a 1-based sequence)
\* a variant that copies answers[j] over answers[i] instead of swapping the two
RECURSIVE shuffleCopies(_, _, _)
shuffleCopies(answers, js, i) ==
    IF i > 0
    THEN shuffleCopies([answers EXCEPT ![i + 1] = answers[js[i] + 1]], js, i - 1)
    ELSE answers

RECURSIVE shuffle(_, _, _)
shuffle(answers, js, i) ==
    IF i > 0
    THEN LET j == js[i]
         IN shuffle([answers EXCEPT ![i + 1] = answers[j + 1], ![j + 1] = answers[i + 1]],
                    js, i - 1)
    ELSE answers

createEnemy(answer, isCorrect) == [answerValue |-> answer, isCorrect |-> isCorrect]

spawnAnswerEnemies(c, correctAnswer, wrongAnswers, js) ==
    LET answers == shuffle(<<correctAnswer>> \o wrongAnswers, js, Len(wrongAnswers))
    IN [c EXCEPT !.s.enemies =
            @ \o [i \in 1..Len(answers) |-> createEnemy(answers[i], answers[i] = correctAnswer)]]

spawnTypeEnemy(c) == [c EXCEPT !.s.enemies = Append(@, createEnemy(0, TRUE))]

clearEnemies(c) == [c EXCEPT !.s.enemies = <<>>]

\* rnd: the outcomes of the random draws of one call.  this.problemStartTime =
\* Date.now() is c.restart: the elapsed time starts again from 0.
generateNewProblem(c, rnd) ==
    IF c.s.isGameOver THEN c
    ELSE LET p == generate(c.s.mathGenerator, <<>>, rnd.choice, rnd.ab[1], rnd.ab[2])
             c1 == clearEnemies([c EXCEPT !.s.currentProblem = <<p>>, !.restart = TRUE])
         IN IF c1.s.gameMode = "shoot"
            THEN LET wrongAnswers == generateWrongAnswers(p.answer, 3, rnd.wrong)
                 IN spawnAnswerEnemies(
                        Emit(c1, "problem:new", [equation |-> p.equation, answer |-> p.answer,
                                                 wrongAnswers |-> wrongAnswers]),
                        p.answer, wrongAnswers, rnd.js)
            ELSE spawnTypeEnemy(
                     Emit(c1, "problem:new", [equation |-> p.equation, answer |-> p.answer]))

\* the callback of every delayedCall
nextProblemCallback(c, rnd) ==
    IF ~c.s.isGameOver THEN generateNewProblem(c, rnd) ELSE c

checkTypedAnswer(c, answer, t) ==
    IF c.s.currentProblem = <<>> THEN c
    ELSE IF answer = c.s.currentProblem[1].answer
         THEN LET c1 == IF Len(c.s.enemies) > 0 THEN [c EXCEPT !.s.enemies = <<>>] ELSE c
              IN Resolution("correct", "typed", c, handleCorrectAnswer(c1, t), t)
         ELSE Resolution("wrong", "typed", c, handleWrongAnswer(c), t)

RemoveAt(seq, j) == [i \in 1..(Len(seq) - 1) |-> IF i < j THEN seq[i] ELSE seq[i + 1]]

\* hits: for each bullet that is within reach of a target this frame, in the order
\* the loop visits the bullets, the index of the target it reaches
RECURSIVE checkBulletEnemyCollision(_, _, _)
checkBulletEnemyCollision(c, hits, t) ==
    IF hits = <<>> THEN c
    ELSE LET j == Head(hits)
             enemy == c.s.enemies[j]
             c1 == IF c.s.gameMode = "shoot"
                   THEN IF c.s.currentProblem # <<>>
                           /\ enemy.answerValue = c.s.currentProblem[1].answer
                        THEN Resolution("correct", "bullet", c, handleCorrectAnswer(c, t), t)
                        ELSE Resolution("wrong", "bullet", c, handleWrongAnswer(c), t)
                   ELSE c
             c2 == [c1 EXCEPT !.s.enemies = RemoveAt(@, j)]
         IN checkBulletEnemyCollision(c2, Tail(hits), t)

\* a variant of the loop below with a fault: every target that leaves the play bounds
\* is taken as a missed answer
RECURSIVE missedEnemiesAnyTarget(_, _, _)
missedEnemiesAnyTarget(c, i, t) ==
    IF i < 1 THEN c
    ELSE LET c1 == Resolution("wrong", "missed", c, handleWrongAnswer(c), t)
             c2 == [c1 EXCEPT !.s.enemies = RemoveAt(@, i)]
             c3 == IF Len(c2.s.enemies) = 0 /\ ~c2.s.isGameOver
                   THEN delayedCall(c2, 500) ELSE c2
         IN missedEnemiesAnyTarget(c3, i - 1, t)

\* the loop over the targets that have left the play bounds, from the last to the first
RECURSIVE missedEnemies(_, _, _)
missedEnemies(c, i, t) ==
    IF i < 1 THEN c
    ELSE LET enemy == c.s.enemies[i]
             c1 == IF enemy.isCorrect \/ c.s.gameMode = "type"
                   THEN Resolution("wrong", "missed", c, handleWrongAnswer(c), t)
                   ELSE c
             c2 == [c1 EXCEPT !.s.enemies = RemoveAt(@, i)]
             c3 == IF Len(c2.s.enemies) = 0 /\ ~c2.s.isGameOver
                   THEN delayedCall(c2, 500) ELSE c2
         IN missedEnemies(c3, i - 1, t)

\* update(): fell says whether the targets are below the play bounds in this frame
update(c, hits, fell, t) ==
    IF c.s.isGameOver \/ c.s.isPaused THEN c
    ELSE LET c1 == checkBulletEnemyCollision(c, hits, t)
         IN IF fell THEN missedEnemies(c1, Len(c1.s.enemies), t) ELSE c1

cleanup(c) == clearEnemies(c)

----------------------------------------------------------------------------
(* The scene's subscriptions (setupEventListeners) *)

\* this.scene.pause(), resume(), stop(): the Phaser status of the scene.  A paused or
\* stopped scene gets no update and its clock does not advance; stopping drops the
\* clock's pending calls.
scenePause(c) == IF c.s.status = "running" THEN [c EXCEPT !.s.status = "paused"] ELSE c
sceneResume(c) == IF c.s.status = "paused" THEN [c EXCEPT !.s.status = "running"] ELSE c
sceneStop(c) ==
    IF c.s.status = "none" THEN c ELSE [c EXCEPT !.s.status = "stopped", !.s.time = <<>>]

\* a variant of the answer:submit subscription with a fault: no check of the pause
onAnswerSubmitWhilePaused(c, data, t) ==
    IF c.s.gameMode = "type" /\ ~c.s.isGameOver
    THEN checkTypedAnswer(c, data.answer, t)
    ELSE c

onAnswerSubmit(c, data, t) ==
    IF c.s.gameMode = "type" /\ ~c.s.isGameOver /\ ~c.s.isPaused
    THEN checkTypedAnswer(c, data.answer, t)
    ELSE c

onGamePause(c) == scenePause([c EXCEPT !.s.isPaused = TRUE])

\* a variant of the game:resume subscription with a fault: it drops the problem
onGameResumeDropsProblem(c) ==
    sceneResume([c EXCEPT !.s.isPaused = FALSE, !.s.currentProblem = <<>>])

onGameResume(c) == sceneResume([c EXCEPT !.s.isPaused = FALSE])

\* a variant of the game:quit subscription with a fault: it ends the session as
\* running out of lives does
onGameQuitEndsSession(c) == sceneStop(cleanup(gameOver(c)))

onGameQuit(c) == sceneStop(cleanup(c))

\* EventBus.emit of a host event: the n callbacks the scene has subscribed run in
\* turn; an exception thrown by one ends the delivery
RECURSIVE emitToScene(_, _, _, _, _)
emitToScene(c, n, event, data, t) ==
    IF n = 0 \/ c.thrown THEN c
    ELSE emitToScene(
            CASE event = "answer:submit" -> onAnswerSubmit(c, data, t)
              [] event = "game:pause" -> onGamePause(c)
              [] event = "game:resume" -> onGameResume(c)
              [] event = "game:quit" -> onGameQuit(c),
            n - 1, event, data, t)

----------------------------------------------------------------------------
(* Evolution: the table and its lookup functions *)

EVOLUTION_STAGES ==
    << [id |-> 1, name |-> "Starter Shuttle", xpRequired |-> 0],
       [id |-> 2, name |-> "Scout Rocket", xpRequired |-> 500],
       [id |-> 3, name |-> "Orbital Skimmer", xpRequired |-> 1500],
       [id |-> 4, name |-> "Ion Spear", xpRequired |-> 3500],
       [id |-> 5, name |-> "Nova Striker", xpRequired |-> 7000],
       [id |-> 6, name |-> "Starforged Cruiser", xpRequired |-> 12000],
       [id |-> 7, name |-> "Celestial Apex", xpRequired |-> 20000] >>

\* the loop of getEvolutionStage from the i-th entry on, stage being its variable
RECURSIVE stageLoop(_, _, _)
stageLoop(xp, i, stage) ==
    IF i > Len(EVOLUTION_STAGES) THEN stage
    ELSE IF xp >= EVOLUTION_STAGES[i].xpRequired
         THEN stageLoop(xp, i + 1, EVOLUTION_STAGES[i].id)
         ELSE stage

\* a variant of getEvolutionStage with a fault: a threshold counts only once exceeded
getEvolutionStageStrict(xp) ==
    Cardinality({i \in 2..Len(EVOLUTION_STAGES) : xp > EVOLUTION_STAGES[i].xpRequired}) + 1

getEvolutionStage(xp) == stageLoop(xp, 1, 1)

\* Array.find: the first entry that matches, as <<entry>>, or <<>>
find(stage) ==
    LET found == {i \in 1..Len(EVOLUTION_STAGES) : EVOLUTION_STAGES[i].id = stage}
    IN IF found = {} THEN <<>>
       ELSE <<EVOLUTION_STAGES[CHOOSE i \in found : \A k \in found : i <= k]>>

getEvolutionByStage(stage) ==
    IF find(stage) # <<>> THEN find(stage)[1] ELSE EVOLUTION_STAGES[1]

\* <<>> stands for null
getNextEvolution(currentStage) == find(currentStage + 1)

\* a variant of getXPToNextEvolution with a fault: no Math.max
getXPToNextEvolutionUnclamped(currentXP, currentStage) ==
    LET next == getNextEvolution(currentStage)
    IN IF next = <<>> THEN 0 ELSE next[1].xpRequired - currentXP

getXPToNextEvolution(currentXP, currentStage) ==
    LET next == getNextEvolution(currentStage)
    IN IF next = <<>> THEN 0 ELSE Max(0, next[1].xpRequired - currentXP)

\* the result is a fraction num / den of integers, den > 0:
\* Math.min(100, (xpInCurrentStage / xpNeededForNext) * 100)
getEvolutionProgress(currentXP, currentStage) ==
    LET current == getEvolutionByStage(currentStage)
        next == getNextEvolution(currentStage)
    IN IF next = <<>> THEN [num |-> 100, den |-> 1]
       ELSE LET xpInCurrentStage == currentXP - current.xpRequired
                xpNeededForNext == next[1].xpRequired - current.xpRequired
            IN IF xpInCurrentStage * 100 > 100 * xpNeededForNext
               THEN [num |-> 100, den |-> 1]
               ELSE [num |-> xpInCurrentStage * 100, den |-> xpNeededForNext]

----------------------------------------------------------------------------
(* The host application *)

NewGameState ==
    [score |-> 0, streak |-> 0, bestStreak |-> 0, correct |-> 0, xpEarned |-> 0,
     currentEquation |-> "", lives |-> 5, maxLives |-> 5]

\* createDefaultProfile(id, name, avatar): the progress of a new profile (its identity,
\* settings and per-operation statistics are not read by the session)
createDefaultProfile ==
    [progress |-> [xp |-> 0, totalProblems |-> 0, correctAnswers |-> 0,
                   currentStreak |-> 0, bestStreak |-> 0, evolutionStage |-> 1]]

\* the application's data with the menu shown; currentProfile is <<>> for null and
\* <<profile>> otherwise.  startGame and the game:over subscription both allow for
\* a null profile: the sessions are followed without one, and the profile's part of
\* the game:over subscription is followed in ProfileSpec.
NewHost(difficulty, currentProfile) ==
    [screen |-> "menu", gameMode |-> "shoot", selectedDifficulty |-> difficulty,
     gameState |-> NewGameState, currentProfile |-> currentProfile,
     evolutionData |-> [from |-> 1, to |-> 2]]

\* the merge of a summary into a progress record (the first half of the handler)
merged(progress, data) ==
    [progress EXCEPT !.xp = @ + data.xpEarned,
                     !.totalProblems = @ + data.correct,
                     !.correctAnswers = @ + data.correct,
                     !.bestStreak = IF data.bestStreak > @ THEN data.bestStreak ELSE @]

\* a variant that climbs one stage per summary however far the xp went
onGameOverOneStage(h, data) ==
    LET h1 == [h EXCEPT !.gameState.score = data.score,
                        !.gameState.correct = data.correct,
                        !.gameState.xpEarned = data.xpEarned,
                        !.gameState.bestStreak = data.bestStreak]
    IN IF h1.currentProfile = <<>> THEN [h1 EXCEPT !.screen = "gameover"]
       ELSE LET oldStage == h1.currentProfile[1].progress.evolutionStage
                progress == merged(h1.currentProfile[1].progress, data)
                newStage == IF getEvolutionStage(progress.xp) > oldStage
                            THEN oldStage + 1 ELSE oldStage
            IN IF newStage > oldStage
               THEN [h1 EXCEPT !.currentProfile[1].progress =
                                    [progress EXCEPT !.evolutionStage = newStage],
                               !.evolutionData = [from |-> oldStage, to |-> newStage],
                               !.screen = "evolution"]
               ELSE [h1 EXCEPT !.currentProfile[1].progress = progress,
                               !.screen = "gameover"]

\* the host's game:over subscription: the mirror takes the summary, the profile
\* takes the xp and the counts, and the stage is looked up from the new xp
onGameOver(h, data) ==
    LET h1 == [h EXCEPT !.gameState.score = data.score,
                        !.gameState.correct = data.correct,
                        !.gameState.xpEarned = data.xpEarned,
                        !.gameState.bestStreak = data.bestStreak]
    IN IF h1.currentProfile = <<>> THEN [h1 EXCEPT !.screen = "gameover"]
       ELSE LET oldStage == h1.currentProfile[1].progress.evolutionStage
                progress == merged(h1.currentProfile[1].progress, data)
                newStage == getEvolutionStage(progress.xp)
            IN IF newStage > oldStage
               THEN [h1 EXCEPT !.currentProfile[1].progress =
                                    [progress EXCEPT !.evolutionStage = newStage],
                               !.evolutionData = [from |-> oldStage, to |-> newStage],
                               !.screen = "evolution"]
               ELSE [h1 EXCEPT !.currentProfile[1].progress = progress,
                               !.screen = "gameover"]

\* a variant that adds the xp of every answer to the profile as it is credited
hostOnCreditsAnswers(h, e) ==
    CASE e.type = "problem:new" ->
            [h EXCEPT !.gameState.currentEquation = e.data.equation]
      [] e.type = "score:update" ->
            [h EXCEPT !.gameState.score = e.data.score, !.gameState.streak = e.data.streak]
      [] e.type = "answer:correct" ->
            [h EXCEPT !.gameState.xpEarned = @ + e.data.xp,
                      !.gameState.streak = e.data.streak,
                      !.gameState.correct = @ + 1,
                      !.currentProfile =
                          IF @ = <<>> THEN @
                          ELSE <<[@[1] EXCEPT !.progress.xp = @ + e.data.xp]>>]
      [] e.type = "answer:wrong" ->
            [h EXCEPT !.gameState.streak = 0]
      [] e.type = "player:lives" ->
            [h EXCEPT !.gameState.lives = e.data.lives]
      [] e.type = "game:over" -> onGameOver(h, e.data)
      [] OTHER -> h

\* the host's subscriptions (setupEventListeners of the application)
hostOn(h, e) ==
    CASE e.type = "problem:new" ->
            [h EXCEPT !.gameState.currentEquation = e.data.equation]
      [] e.type = "score:update" ->
            [h EXCEPT !.gameState.score = e.data.score, !.gameState.streak = e.data.streak]
      [] e.type = "answer:correct" ->
            [h EXCEPT !.gameState.xpEarned = @ + e.data.xp,
                      !.gameState.streak = e.data.streak,
                      !.gameState.correct = @ + 1]
      [] e.type = "answer:wrong" ->
            [h EXCEPT !.gameState.streak = 0]
      [] e.type = "player:lives" ->
            [h EXCEPT !.gameState.lives = e.data.lives]
      [] e.type = "game:over" -> onGameOver(h, e.data)
      [] OTHER -> h

RECURSIVE deliver(_, _)
deliver(h, out) == IF out = <<>> THEN h ELSE deliver(hostOn(h, Head(out)), Tail(out))

\* parseInt(text, 10): leading blanks, an optional sign, then decimal digits up to
\* the first other character; <<>> stands for NaN, <<n>> for the number n
Digits == <<"0", "1", "2", "3", "4", "5", "6", "7", "8", "9">>
digit(ch) == (CHOOSE i \in 1..10 : Digits[i] = ch) - 1
isDigit(ch) == \E i \in 1..10 : Digits[i] = ch

RECURSIVE skipBlanks(_)
skipBlanks(text) ==
    IF text # <<>> /\ Head(text) = " " THEN skipBlanks(Tail(text)) ELSE text

RECURSIVE parseDigits(_, _, _)
parseDigits(text, value, seen) ==
    IF text # <<>> /\ isDigit(Head(text))
    THEN parseDigits(Tail(text), value * 10 + digit(Head(text)), TRUE)
    ELSE IF seen THEN <<value>> ELSE <<>>

parseInt(text) ==
    LET t1 == skipBlanks(text)
        negative == t1 # <<>> /\ Head(t1) = "-"
        t2 == IF t1 # <<>> /\ Head(t1) \in {"-", "+"} THEN Tail(t1) ELSE t1
        r == parseDigits(t2, 0, FALSE)
    IN IF r = <<>> THEN <<>> ELSE IF negative THEN <<-r[1]>> ELSE r

----------------------------------------------------------------------------
(* History of the running session, kept for the properties below *)

NewHist ==
    [issued |-> FALSE,      \* a problem:new event was published
     overs |-> 0,           \* game:over events published
     lastOver |-> <<>>,     \* payload of the last game:over
     corrects |-> 0,        \* correct resolutions
     wrongs |-> 0,          \* incorrect resolutions
     sinceIssue |-> TimeCap,  \* ms since the last problem:new, counted up to TimeCap
     played |-> TimeCap,    \* the part of them during which the session was not paused
     allFast |-> TRUE,      \* every correct resolution came within 1000 ms of the issue
     endedAt |-> <<>>,      \* the wrongs count and the counters when the session ended
     afterEnd |-> 0,        \* problem:new, answer:correct, answer:wrong published after game:over
     quit |-> FALSE,        \* game:quit was handled in this session
     afterQuit |-> 0,       \* game:over events published by that handling or after it
     atPause |-> <<>>,      \* the counters and problem when game:pause was handled
     last |-> "",           \* the last step, where the properties speak of it
     sincePause |-> 0,      \* events published since then
     answered |-> <<>>]     \* equation of the problem resolved as correct since the last problem:new

RECURSIVE accountEvents(_, _)
accountEvents(h, out) ==
    IF out = <<>> THEN h
    ELSE LET e == Head(out)
             h1 == IF h.overs > 0 /\ e.type \in {"problem:new", "answer:correct", "answer:wrong"}
                   THEN [h EXCEPT !.afterEnd = @ + 1] ELSE h
             h2 == IF e.type = "game:over"
                   THEN [h1 EXCEPT !.overs = @ + 1, !.lastOver = <<e.data>>]
                   ELSE IF e.type = "problem:new" THEN [h1 EXCEPT !.issued = TRUE]
                   ELSE h1
             h3 == IF e.type \in {"problem:new", "answer:correct", "answer:wrong", "game:over"}
                   THEN [h2 EXCEPT !.sincePause = @ + 1] ELSE h2
             h4 == IF h.quit /\ e.type = "game:over"
                   THEN [h3 EXCEPT !.afterQuit = @ + 1] ELSE h3
         IN accountEvents(h4, Tail(out))

RECURSIVE accountResolutions(_, _, _)
accountResolutions(h, log, issued) ==
    IF log = <<>> THEN h
    ELSE LET r == Head(log)
             h1 == IF r.kind = "correct"
                   THEN [h EXCEPT !.corrects = @ + 1, !.allFast = @ /\ issued < 1000,
                                  !.answered = IF r.pre.currentProblem = <<>> THEN @
                                               ELSE <<r.pre.currentProblem[1].equation>>]
                   ELSE [h EXCEPT !.wrongs = @ + 1]
             h2 == IF h1.endedAt = <<>> /\ r.post.isGameOver
                   THEN [h1 EXCEPT !.endedAt = <<[wrongs |-> h1.wrongs, view |-> r.post]>>]
                   ELSE h1
         IN accountResolutions(h2, Tail(log), issued)

published(out, type) == \E i \in 1..Len(out) : out[i].type = type

\* the last step is noted when it started the scene, paused it, resumed it at once
\* after the pause, or submitted an answer to the paused scene
noted(h, c, step) ==
    CASE step = "resumeGame" -> IF h.last = "pauseGame" THEN step ELSE ""
      [] step = "submitAnswer" -> IF c.s.isPaused THEN step ELSE ""
      [] OTHER -> ""

\* the pause record is kept during the pause and through a resume that follows the
\* pause at once
account(h, c, step) ==
    LET h1 == accountResolutions(accountEvents(h, c.out), c.log, h.sinceIssue)
        kept == c.s.isPaused \/ (step = "resumeGame" /\ h.last = "pauseGame")
    IN [h1 EXCEPT !.sinceIssue = IF published(c.out, "problem:new") THEN 0 ELSE @,
                  !.played = IF published(c.out, "problem:new") THEN 0 ELSE @,
                  !.answered = IF published(c.out, "problem:new") THEN <<>> ELSE @,
                  !.last = noted(h, c, step),
                  !.atPause = IF kept THEN @ ELSE <<>>,
                  !.sincePause = IF c.s.isPaused THEN @ ELSE 0]

\* what every step does with the outcome c of the handlers it ran
Commit(c, h, step) ==
    /\ scene' = c.s
    /\ emitted' = c.out
    /\ resolved' = c.log
    /\ host' = deliver(h, c.out)
    /\ elapsed' = IF c.restart THEN 0 ELSE elapsed
    /\ hist' = account(hist, c, step)

----------------------------------------------------------------------------
(* Inputs *)

Typed == { <<"2">>, <<"3">>, <<"9">>, <<"x">>, <<" ", "3", "a">> }

\* offsets are drawn from 1..max(5, floor(0.3 * correctAnswer) + 1): 1 and 2 are in
\* that range for every answer
WrongDraws == { << [offset |-> 1, sign |-> -1], [offset |-> 2, sign |-> 1] >> }

ShuffleDraws == { <<1, 2, 3>>, <<0, 0, 2>> }

Randoms(s) ==
    [choice : 1..Len(config(s.mathGenerator).operations), ab : OperandDraws,
     wrong : IF s.gameMode = "shoot" THEN WrongDraws ELSE {<<>>},
     js : IF s.gameMode = "shoot" THEN ShuffleDraws ELSE {<<>>}]

\* the bullets in reach of a target during one frame: at most MaxHitsPerFrame, each
\* naming a target still present when the loop gets to it.  The handlers treat all
\* distractors alike, so a bullet reaches the correct target or the last distractor.
RECURSIVE validHits(_, _)
validHits(enemies, hits) ==
    \/ hits = <<>>
    \/ /\ Head(hits) \in 1..Len(enemies)
       /\ \/ enemies[Head(hits)].isCorrect
          \/ \A k \in (Head(hits) + 1)..Len(enemies) : enemies[k].isCorrect
       /\ validHits(RemoveAt(enemies, Head(hits)), Tail(hits))

Hits(enemies) ==
    { h \in UNION { [1..k -> 1..Len(enemies)] : k \in 0..Min(MaxHitsPerFrame, Len(enemies)) } :
        validHits(enemies, h) }

due(timers) == \E i \in 1..Len(timers) : timers[i] = 0
firstDue(timers) == CHOOSE i \in 1..Len(timers) :
                        timers[i] = 0 /\ \A k \in 1..(i - 1) : timers[k] # 0
elapse(timers, d) == [i \in 1..Len(timers) |-> Max(0, timers[i] - d)]

----------------------------------------------------------------------------
(* Steps *)

\* no MathGenerator call is followed on its own during a game
NoCall == [pc |-> "none"]

Init ==
    /\ scene \in {NewScene(f) : f \in GameFiles}
    /\ listeners = 0
    /\ elapsed = TimeCap
    /\ pending = <<>>
    /\ host \in {NewHost(d, <<>>) : d \in Difficulties}
    /\ emitted = <<>>
    /\ resolved = <<>>
    /\ hist = NewHist
    /\ call = NoCall

\* startGame(mode): the host resets its mirror, stops a running scene and starts the
\* scene from a timeout.  It is called from the menu and, as playAgain, from the
\* game-over screen.
startGame(mode) ==
    /\ host.screen \in {"menu", "gameover"}
    /\ host.screen = "gameover" => mode = host.gameMode
    /\ listeners + Len(pending) < MaxSessions
    /\ Len(pending) < MaxPendingStarts
    /\ pending' = Append(pending, 100)
    /\ Commit(sceneStop(Ctx(scene)),
              [host EXCEPT !.gameMode = mode, !.gameState = NewGameState, !.screen = "game"],
              "startGame")
    /\ UNCHANGED <<listeners, call>>

\* the timeout of startGame: scene.start('GameScene', data) runs init and create
startScene ==
    /\ pending # <<>> /\ Head(pending) = 0
    /\ pending' = Tail(pending)
    /\ listeners' = listeners + 1
    /\ LET c0 == IF scene.status \in {"running", "paused"} THEN sceneStop(Ctx(scene))
                 ELSE Ctx(scene)
           c1 == init(c0, [mode |-> host.gameMode, difficulty |-> host.selectedDifficulty])
           c2 == create([c1 EXCEPT !.s.status = "running"])
       IN /\ scene' = c2.s
          /\ emitted' = c2.out
          /\ resolved' = c2.log
          /\ host' = deliver(host, c2.out)
          /\ hist' = [NewHist EXCEPT !.last = "startScene"]
    /\ UNCHANGED <<elapsed, call>>

submitAnswer(text) ==
    LET answer == parseInt(text)
        c == IF answer # <<>>
             THEN emitToScene(Ctx(scene), listeners, "answer:submit", [answer |-> answer[1]],
                              elapsed)
             ELSE Ctx(scene)
    IN /\ Commit(c, host, "submitAnswer")
       /\ UNCHANGED <<listeners, pending, call>>

\* pauseGame and resumeGame are reached as handleGlobalKeydown reaches them: on the
\* game screen and on the pause screen
pauseGame ==
    /\ host.screen = "game"
    /\ LET c == emitToScene(Ctx(scene), listeners, "game:pause", <<>>, elapsed)
       IN /\ scene' = c.s
          /\ emitted' = c.out
          /\ resolved' = c.log
          /\ host' = [deliver(host, c.out) EXCEPT !.screen = "paused"]
          /\ hist' = [hist EXCEPT !.atPause = IF listeners = 0 \/ scene.isPaused THEN @
                                                ELSE <<View(scene)>>,
                                    !.last = "pauseGame"]
    /\ UNCHANGED <<listeners, elapsed, pending, call>>

resumeGame ==
    /\ host.screen = "paused"
    /\ Commit(emitToScene(Ctx(scene), listeners, "game:resume", <<>>, elapsed),
              [host EXCEPT !.screen = "game"], "resumeGame")
    /\ UNCHANGED <<listeners, pending, call>>

quitGame ==
    /\ LET c == emitToScene(Ctx(scene), listeners, "game:quit", <<>>, elapsed)
       IN /\ scene' = c.s
          /\ emitted' = c.out
          /\ resolved' = c.log
          /\ host' = [deliver(host, c.out) EXCEPT !.screen = "menu"]
          /\ hist' = [accountEvents([hist EXCEPT !.quit = @ \/ listeners > 0], c.out)
                          EXCEPT !.last = ""]
    /\ UNCHANGED <<listeners, elapsed, pending, call>>

\* time passes: Date.now() advances; the scene's clock advances while the scene runs
Tick(d) ==
    /\ ~due(pending)
    /\ scene.status = "running" => ~due(scene.time)
    /\ elapsed' = Min(TimeCap, elapsed + d)
    /\ pending' = elapse(pending, d)
    /\ scene' = IF scene.status = "running"
                THEN [scene EXCEPT !.time = elapse(@, d)] ELSE scene
    /\ emitted' = <<>>
    /\ resolved' = <<>>
    /\ hist' = [hist EXCEPT !.sinceIssue = Min(TimeCap, @ + d),
                             !.played = IF scene.isPaused THEN @ ELSE Min(TimeCap, @ + d),
                             !.last = ""]
    /\ UNCHANGED <<listeners, host, call>>

\* the scene's clock runs the first delayed call that is due
TimerFire ==
    /\ scene.status = "running"
    /\ due(scene.time)
    /\ \E rnd \in Randoms(scene) :
       LET i == firstDue(scene.time)
           c == Ctx([scene EXCEPT !.time = RemoveAt(@, i)])
       IN Commit(nextProblemCallback(c, rnd), host, "TimerFire")
    /\ UNCHANGED <<listeners, pending, call>>

\* one frame: bullets exist in shoot mode only.  The targets start at the same height
\* and fall at the same speed, so they leave the play bounds in the same frame; the
\* bullets fly upwards from above the player, so none reaches a target that has left
\* the bounds.
Update(hits, fell) ==
    /\ scene.status = "running"
    /\ ~due(scene.time)
    /\ hits # <<>> => scene.gameMode = "shoot" /\ ~fell
    /\ LET c == update(Ctx(scene), hits, fell, elapsed)
       IN Commit(c, host, "Update")
    /\ UNCHANGED <<listeners, pending, call>>

\* the player uses the host's controls once the scene has been started: not within
\* the 100 ms between startGame and the scene's start
Settled == pending = <<>>

\* the runs are followed while the session's counters stay within the bounds: a step
\* resolves an answer as correct in at most maxCorrect steps of a session
Within(maxCorrect) ==
    /\ scene'.correctAnswers > scene.correctAnswers => scene.correctAnswers < maxCorrect
    /\ scene'.playerLives >= -MaxOverdraw

Next ==
    \/ \E mode \in {"shoot", "type"} : startGame(mode)
    \/ startScene
    \/ \E text \in Typed : Settled /\ submitAnswer(text) /\ Within(MaxCorrect)
    \/ Settled /\ pauseGame
    \/ Settled /\ resumeGame
    \/ Settled /\ quitGame
    \/ \E d \in TickSteps : Tick(d)
    \/ TimerFire
    \/ \E hits \in Hits(scene.enemies), fell \in BOOLEAN :
          Update(hits, fell) /\ Within(MaxCorrect)

Spec == Init /\ [][Next]_vars

\* the type-mode runs: sessions of type mode with all the host's controls; time
\* passes and what is due runs (the browser runs a timeout that is due, and the clock
\* of a running scene runs a delayed call that is due)
TypeNext ==
    \/ startGame("type")
    \/ startScene
    \/ \E text \in Typed : Settled /\ submitAnswer(text) /\ Within(MaxCorrect)
    \/ Settled /\ pauseGame
    \/ Settled /\ resumeGame
    \/ Settled /\ quitGame
    \/ \E d \in TickSteps : Tick(d)
    \/ TimerFire

TypeFairSpec ==
    /\ Init /\ [][TypeNext]_vars
    /\ WF_vars(\E d \in TickSteps : Tick(d))
    /\ WF_vars(startScene)
    /\ WF_vars(TimerFire)

\* the scoring runs: one type-mode session, followed for MaxStreak correct resolutions
WithinScoring ==
    /\ Within(MaxStreak)
    /\ hist'.wrongs <= MaxWrong
    /\ Len(scene'.time) <= MaxDelayed

ScoringNext ==
    \/ listeners = 0 /\ startGame("type")
    \/ startScene
    \/ \E text \in Typed : Settled /\ submitAnswer(text) /\ WithinScoring
    \/ \E d \in TickSteps : Tick(d)
    \/ TimerFire

ScoringSpec == Init /\ [][ScoringNext]_vars

\* the resubmission runs: one type-mode session, followed for MaxCredited correct
\* resolutions and as many delayed calls outstanding
WithinResubmit ==
    /\ Within(MaxCredited)
    /\ hist'.wrongs <= MaxWrong
    /\ Len(scene'.time) <= MaxCredited

ResubmitNext ==
    \/ listeners = 0 /\ startGame("type")
    \/ startScene
    \/ \E text \in Typed : Settled /\ submitAnswer(text) /\ WithinResubmit
    \/ \E d \in TickSteps : Tick(d)
    \/ TimerFire

ResubmitSpec == Init /\ [][ResubmitNext]_vars

----------------------------------------------------------------------------
(* MathGenerator, a call at a time: generate() as one step, generateWrongAnswers() *)
(* with one step per iteration of its loops                                        *)

maxAttempts == 100

Levels == 1..5

\* the levels a generator is asked for: the five defined ones and some on either side
RequestedLevels == -1..7

\* randomInt(min, max): the set of its outcomes
randomInt(min, max) == min..max

\* a variant of the draws below with a fault: every operation draws up to maxNumber
operandDrawsUpToMaxNumber(level, operation) == randomInt(1, config(level).maxNumber)

\* the outcomes of the two randomInt calls of the method generating operation
operandDraws(level, operation) ==
    IF operation \in {"addition", "subtraction"}
    THEN randomInt(1, config(level).maxNumber)
    ELSE randomInt(1, config(level).maxMultiplier)

\* the outcomes of the offset drawn by an attempt: floor(correctAnswer * 0.3) is
\* (3 * correctAnswer) \div 10
offsetDraws(correctAnswer) == randomInt(1, Max(5, (3 * correctAnswer) \div 10 + 1))

\* Set.add: the values are kept in the order of their insertion
add(wrongAnswers, value) ==
    IF value \in Range(wrongAnswers) THEN wrongAnswers ELSE Append(wrongAnswers, value)

\* a variant of the test below with a fault: values that are not positive pass
positiveAndWrongAnyNumber(wrongAnswer, correctAnswer) == wrongAnswer # correctAnswer

\* the test an attempt of the randomized phase makes on its proposal
positiveAndWrong(wrongAnswer, correctAnswer) ==
    wrongAnswer > 0 /\ wrongAnswer # correctAnswer

\* a variant of the step below with a fault: the magnitude never grows
nextFallbackOffsetNoGrowth(fallbackOffset) == -fallbackOffset

\* fallbackOffset = fallbackOffset > 0 ? -fallbackOffset : (-fallbackOffset + 1)
nextFallbackOffset(fallbackOffset) ==
    IF fallbackOffset > 0 THEN -fallbackOffset ELSE (-fallbackOffset) + 1

\* the argument of generate: left out, or one of the four operations
PreferredOperations ==
    {<<>>, <<"addition">>, <<"subtraction">>, <<"multiplication">>, <<"division">>}

\* the calls followed: generate() on a generator constructed for a requested level
GenerateCalls ==
    {[pc |-> "generate", fn |-> "generate", requested |-> l, level |-> MathGenerator(l),
      preferredOperation |-> p] : l \in RequestedLevels, p \in PreferredOperations}

\* and generateWrongAnswers(correctAnswer, count) at its first loop
WrongAnswersCalls ==
    {[pc |-> "random", fn |-> "generateWrongAnswers", correctAnswer |-> a, count |-> n,
      attempts |-> 0, wrongAnswers |-> <<>>, fallbackOffset |-> 1, proposed |-> <<>>,
      result |-> <<>>] : a \in 1..MaxAnswer, n \in 0..MaxCount}

\* no game is going on while a call is followed
GenerateInit ==
    /\ scene = NewScene("part_003")
    /\ listeners = 0
    /\ elapsed = TimeCap
    /\ pending = <<>>
    /\ host = NewHost(1, <<>>)
    /\ emitted = <<>>
    /\ resolved = <<>>
    /\ hist = NewHist
    /\ call \in GenerateCalls

WrongAnswersInit ==
    /\ scene = NewScene("part_003")
    /\ listeners = 0
    /\ elapsed = TimeCap
    /\ pending = <<>>
    /\ host = NewHost(1, <<>>)
    /\ emitted = <<>>
    /\ resolved = <<>>
    /\ hist = NewHist
    /\ call \in WrongAnswersCalls

Idle == UNCHANGED <<scene, listeners, elapsed, pending, host, emitted, resolved, hist>>

callGenerate ==
    /\ call.pc = "generate"
    /\ \E choice \in 1..Len(config(call.level).operations) :
       \E a, b \in operandDraws(call.level,
                                operationOf(call.level, call.preferredOperation, choice)) :
           call' = [pc |-> "done", fn |-> "generate", requested |-> call.requested,
                    level |-> call.level, preferredOperation |-> call.preferredOperation,
                    draws |-> <<a, b>>,
                    result |-> generate(call.level, call.preferredOperation, choice, a, b)]
    /\ Idle

\* one iteration of the first loop
randomAttempt ==
    /\ call.pc = "random"
    /\ Len(call.wrongAnswers) < call.count /\ call.attempts < maxAttempts
    /\ \E offset \in offsetDraws(call.correctAnswer), sign \in {1, -1} :
       LET wrongAnswer == call.correctAnswer + offset * sign
       IN call' = [call EXCEPT !.attempts = @ + 1,
                               !.wrongAnswers =
                                   IF positiveAndWrong(wrongAnswer, call.correctAnswer)
                                   THEN add(@, wrongAnswer) ELSE @]
    /\ Idle

\* the first loop ends; let fallbackOffset = 1
leaveRandomPhase ==
    /\ call.pc = "random"
    /\ ~(Len(call.wrongAnswers) < call.count /\ call.attempts < maxAttempts)
    /\ call' = [call EXCEPT !.pc = "fallback", !.fallbackOffset = 1]
    /\ Idle

\* one iteration of the second loop; proposed lists the offsets it has tried
fallbackStep ==
    /\ call.pc = "fallback"
    /\ Len(call.wrongAnswers) < call.count
    /\ LET candidate == call.correctAnswer + call.fallbackOffset
       IN call' = [call EXCEPT !.wrongAnswers =
                                   IF candidate > 0 /\ candidate # call.correctAnswer
                                      /\ candidate \notin Range(@)
                                   THEN add(@, candidate) ELSE @,
                               !.proposed = Append(@, call.fallbackOffset),
                               !.fallbackOffset = nextFallbackOffset(@)]
    /\ Idle

\* return Array.from(wrongAnswers)
returnWrongAnswers ==
    /\ call.pc = "fallback"
    /\ ~(Len(call.wrongAnswers) < call.count)
    /\ call' = [call EXCEPT !.pc = "done", !.result = call.wrongAnswers]
    /\ Idle

\* setDifficulty(level) on the generator, before generate is called
callSetDifficulty(level) ==
    /\ call.pc = "generate"
    /\ call' = [call EXCEPT !.requested = level, !.level = setDifficulty(level)]
    /\ Idle

GenerateNext ==
    \/ callGenerate
    \/ \E level \in RequestedLevels : callSetDifficulty(level)

GenerateSpec == GenerateInit /\ [][GenerateNext]_vars

WrongAnswersNext ==
    \/ randomAttempt
    \/ leaveRandomPhase
    \/ fallbackStep
    \/ returnWrongAnswers

WrongAnswersSpec == WrongAnswersInit /\ [][WrongAnswersNext]_vars

\* a call runs to its end: the method's loops are sequential code, which takes its
\* next step as long as it has one
WrongAnswersFairSpec == WrongAnswersSpec /\ WF_vars(WrongAnswersNext)

----------------------------------------------------------------------------
(* Evolution, a call at a time *)

\* the calls followed: a function of the table about to be applied to an xp and a stage
EvolutionInit ==
    /\ scene = NewScene("part_003")
    /\ listeners = 0
    /\ elapsed = TimeCap
    /\ pending = <<>>
    /\ host = NewHost(1, <<>>)
    /\ emitted = <<>>
    /\ resolved = <<>>
    /\ hist = NewHist
    /\ call \in {[pc |-> "evolution", xp |-> xp, stage |-> stage] :
                     xp \in 0..MaxXp, stage \in 1..Len(EVOLUTION_STAGES)}

callGetEvolutionStage ==
    /\ call.pc = "evolution"
    /\ call' = [pc |-> "done", fn |-> "getEvolutionStage", xp |-> call.xp,
                result |-> getEvolutionStage(call.xp)]
    /\ Idle

callGetXPToNextEvolution ==
    /\ call.pc = "evolution"
    /\ call' = [pc |-> "done", fn |-> "getXPToNextEvolution", xp |-> call.xp,
                stage |-> call.stage,
                result |-> getXPToNextEvolution(call.xp, call.stage)]
    /\ Idle

callGetEvolutionProgress ==
    /\ call.pc = "evolution"
    /\ call' = [pc |-> "done", fn |-> "getEvolutionProgress", xp |-> call.xp,
                stage |-> call.stage,
                result |-> getEvolutionProgress(call.xp, call.stage)]
    /\ Idle

EvolutionNext ==
    \/ callGetEvolutionStage
    \/ callGetXPToNextEvolution
    \/ callGetEvolutionProgress

EvolutionSpec == EvolutionInit /\ [][EvolutionNext]_vars

----------------------------------------------------------------------------
(* The profile and the summary of a session *)

\* the summary of a session of n correct answers, each within three seconds and all in
\* one streak, as handleCorrectAnswer adds them up and gameOver publishes them
summaryOf(n) ==
    LET rising == Min(n, 10)     \* answers whose streakBonus is below its cap of 20
        streakBonuses == rising * (rising + 1) + 20 * (n - rising)
    IN [score |-> 100 * n + 5 * streakBonuses, correct |-> n,
        xpEarned |-> (10 + 5) * n + streakBonuses, bestStreak |-> n]

\* the profile after sessions that have earned xp so far: the stage follows the xp
\* (it does from createDefaultProfile on, as xp only grows)
profileWith(xp) ==
    [createDefaultProfile EXCEPT !.progress.xp = xp,
                                 !.progress.evolutionStage = getEvolutionStage(xp)]

\* a session is running for a profile, and its summary is about to be published
ProfileInit ==
    /\ scene = NewScene("part_003")
    /\ listeners = 0
    /\ elapsed = TimeCap
    /\ pending = <<>>
    /\ host \in {[NewHost(1, <<profileWith(xp)>>) EXCEPT !.screen = "game"] :
                     xp \in 0..MaxXp}
    /\ emitted = <<>>
    /\ resolved = <<>>
    /\ hist = NewHist
    /\ call \in {[pc |-> "summary", data |-> summaryOf(n)] : n \in SessionLengths}

\* EventBus.emit('game:over', summary) reaching the host's subscription
publishGameOver ==
    /\ call.pc = "summary"
    /\ host' = hostOn(host, [type |-> "game:over", data |-> call.data])
    /\ call' = [pc |-> "merged", data |-> call.data]
    /\ UNCHANGED <<scene, listeners, elapsed, pending, emitted, resolved, hist>>

\* closeEvolution(): the evolution screen gives way to the game-over screen
closeEvolution ==
    /\ host.screen = "evolution"
    /\ host' = [host EXCEPT !.screen = "gameover"]
    /\ UNCHANGED <<scene, listeners, elapsed, pending, emitted, resolved, hist, call>>

ProfileNext == publishGameOver \/ closeEvolution

ProfileSpec == ProfileInit /\ [][ProfileNext]_vars

\* sessions played for a profile: the menu is shown for a profile whose earlier
\* sessions have brought it close to the second stage
CareerInit ==
    /\ scene \in {NewScene(f) : f \in GameFiles}
    /\ listeners = 0
    /\ elapsed = TimeCap
    /\ pending = <<>>
    /\ host = NewHost(1, <<profileWith(CareerXp)>>)
    /\ emitted = <<>>
    /\ resolved = <<>>
    /\ hist = NewHist
    /\ call = NoCall

CareerNext ==
    \/ \E mode \in {"shoot", "type"} : startGame(mode)
    \/ startScene
    \/ \E text \in Typed : Settled /\ submitAnswer(text) /\ Within(MaxCorrect)
    \/ Settled /\ quitGame
    \/ \E d \in TickSteps : Tick(d)
    \/ TimerFire
    \/ \E hits \in Hits(scene.enemies), fell \in BOOLEAN :
          Update(hits, fell) /\ Within(MaxCorrect)
    \/ closeEvolution

CareerSpec == CareerInit /\ [][CareerNext]_vars

----------------------------------------------------------------------------
(* EventBus, a call at a time *)

\* the events and the callbacks followed; a callback either returns or throws
\* (as the scene's answer:submit callback does on a stopped scene)
Events == {"answer:submit", "game:quit"}
Callbacks == {"f", "g", "h"}
throws(callback) == callback = "h"

\* Set.add and Set.delete on an insertion-ordered set, kept as a sequence
setAdd(set, callback) ==
    IF callback \in Range(set) THEN set ELSE Append(set, callback)

setDelete(set, callback) == SelectSeq(set, LAMBDA x : x # callback)

\* callbacks.forEach(callback => callback(data)): the callbacks invoked, in order;
\* an exception leaves forEach and emit at once
RECURSIVE forEach(_)
forEach(callbacks) ==
    IF callbacks = <<>> THEN <<>>
    ELSE IF throws(Head(callbacks)) THEN <<Head(callbacks)>>
    ELSE <<Head(callbacks)>> \o forEach(Tail(callbacks))

\* a new EventBusClass: no listeners, no unsubscribe function handed out, no emit yet.
\* call.listeners maps an event to its set (<<>> also stands for a missing key),
\* call.unsubscribes holds the closures returned by on, call.emitted the last emit.
BusInit ==
    /\ scene = NewScene("part_003")
    /\ listeners = 0
    /\ elapsed = TimeCap
    /\ pending = <<>>
    /\ host = NewHost(1, <<>>)
    /\ emitted = <<>>
    /\ resolved = <<>>
    /\ hist = NewHist
    /\ call = [pc |-> "bus", listeners |-> [event \in Events |-> <<>>],
               unsubscribes |-> {}, emitted |-> <<>>]

on(event, callback) ==
    /\ call.pc = "bus"
    /\ call' = [call EXCEPT !.listeners[event] = setAdd(@, callback),
                            !.unsubscribes = @ \cup {<<event, callback>>}]
    /\ Idle

\* the function returned by on is called
unsubscribe(event, callback) ==
    /\ call.pc = "bus"
    /\ <<event, callback>> \in call.unsubscribes
    /\ call' = [call EXCEPT !.listeners[event] = setDelete(@, callback)]
    /\ Idle

off(event, callback) ==
    /\ call.pc = "bus"
    /\ call' = [call EXCEPT !.listeners[event] = setDelete(@, callback)]
    /\ Idle

clear ==
    /\ call.pc = "bus"
    /\ call' = [call EXCEPT !.listeners = [event \in Events |-> <<>>]]
    /\ Idle

emit(event) ==
    /\ call.pc = "bus"
    /\ call' = [call EXCEPT !.emitted =
                     <<[event |-> event, invoked |-> forEach(call.listeners[event]),
                        thrown |-> \E callback \in Range(call.listeners[event]) :
                                       throws(callback)]>>]
    /\ Idle

BusNext ==
    \/ \E event \in Events, callback \in Callbacks : on(event, callback)
    \/ \E event \in Events, callback \in Callbacks : unsubscribe(event, callback)
    \/ \E event \in Events, callback \in Callbacks : off(event, callback)
    \/ clear
    \/ \E event \in Events : emit(event)

BusSpec == BusInit /\ [][BusNext]_vars

----------------------------------------------------------------------------
(* StorageService, a call at a time *)

DEFAULT_AVATAR == "astronaut"

\* what localStorage.getItem can return for a key: <<>> for null, or <<text>> with
\* text the empty string, a text that is not JSON, or the JSON text of a value.
\* A value is null, a number, or an object with the fields it has
\* (avatar "" and progress <<>> stand for a field that is not there).
Texts(values) ==
    {[json |-> FALSE, empty |-> TRUE], [json |-> FALSE, empty |-> FALSE]}
        \cup {[json |-> TRUE, empty |-> FALSE, value |-> v] : v \in values}

ProfileValues ==
    {[type |-> "null"], [type |-> "number"]}
        \cup {[type |-> "object", id |-> "p1", avatar |-> avatar, progress |-> progress] :
                  avatar \in {"", "pilot"},
                  progress \in {<<>>} \cup
                                {<<profileWith(xp).progress>> : xp \in StoredXps}}

IndexValues ==
    {[type |-> "null"]}
        \cup {[type |-> "object", profiles |-> profiles, activeProfile |-> active] :
                  profiles \in {<<>>, <<"p1">>}, active \in {<<>>, <<"p1">>}}

Items(values) == {<<>>} \cup {<<text>> : text \in Texts(values)}

\* JSON.parse(data): the value of a JSON text; anything else is a SyntaxError
JSONparse(data) ==
    IF data.json THEN [thrown |-> FALSE, value |-> data.value] ELSE [thrown |-> TRUE]

\* JSON.stringify(profile), as saveProfile stores it
JSONstringify(value) == [json |-> TRUE, empty |-> FALSE, value |-> value]

\* getProfilesIndex(): the stored index, or an empty one when there is none or it
\* does not parse
getProfilesIndex(storage) ==
    LET data == storage.index
    IN IF data = <<>> \/ data[1].empty
       THEN [type |-> "object", profiles |-> <<>>, activeProfile |-> <<>>]
       ELSE LET parsed == JSONparse(data[1])
            IN IF parsed.thrown
               THEN [type |-> "object", profiles |-> <<>>, activeProfile |-> <<>>]
               ELSE parsed.value

\* getProfile(id): [result, storage]; result is <<>> for null.  Reading avatar of
\* null and setting it on a number both throw inside the try (the module is strict).
getProfile(storage, id) ==
    LET data == storage.profile
    IN IF data = <<>> \/ data[1].empty THEN [result |-> <<>>, storage |-> storage]
       ELSE LET parsed == JSONparse(data[1])
            IN IF parsed.thrown \/ parsed.value.type # "object"
               THEN [result |-> <<>>, storage |-> storage]
               ELSE IF parsed.value.avatar = ""
               THEN LET profile == [parsed.value EXCEPT !.avatar = DEFAULT_AVATAR]
                    IN [result |-> <<profile>>,
                        storage |-> [storage EXCEPT !.profile = <<JSONstringify(profile)>>]]
               ELSE [result |-> <<parsed.value>>, storage |-> storage]

\* getActiveProfile(): [result, storage, thrown]; reading activeProfile of a null
\* index throws, outside any try
getActiveProfile(storage) ==
    LET index == getProfilesIndex(storage)
    IN IF index.type # "object" THEN [result |-> <<>>, storage |-> storage, thrown |-> TRUE]
       ELSE IF index.activeProfile = <<>>
       THEN [result |-> <<>>, storage |-> storage, thrown |-> FALSE]
       ELSE getProfile(storage, index.activeProfile[1]) @@ [thrown |-> FALSE]

\* the stored index and the stored text of profile p1, a load about to be made
StorageInit ==
    /\ scene = NewScene("part_003")
    /\ listeners = 0
    /\ elapsed = TimeCap
    /\ pending = <<>>
    /\ host = NewHost(1, <<>>)
    /\ emitted = <<>>
    /\ resolved = <<>>
    /\ hist = NewHist
    /\ call \in {[pc |-> "storage", storage |-> [index |-> index, profile |-> profile]] :
                     index \in Items(IndexValues), profile \in Items(ProfileValues)}

callGetProfile ==
    /\ call.pc = "storage"
    /\ LET r == getProfile(call.storage, "p1")
       IN call' = [pc |-> "done", fn |-> "getProfile", before |-> call.storage,
                   storage |-> r.storage, result |-> r.result, thrown |-> FALSE]
    /\ Idle

callGetActiveProfile ==
    /\ call.pc = "storage"
    /\ LET r == getActiveProfile(call.storage)
       IN call' = [pc |-> "done", fn |-> "getActiveProfile", before |-> call.storage,
                   storage |-> r.storage, result |-> r.result, thrown |-> r.thrown]
    /\ Idle

StorageNext == callGetProfile \/ callGetActiveProfile

StorageSpec == StorageInit /\ [][StorageNext]_vars

----------------------------------------------------------------------------
(* generateNewProblem, a call at a time *)

\* the outcomes of the random draws of one call at levels 1 and 2: the operation, two
\* operands up to MaxOperand, two attempts of generateWrongAnswers (an offset of
\* 1..5 and a sign each, repeated in turn), and the j of each round of the shuffle
SpawnRandoms(s) ==
    [choice : 1..Len(config(s.mathGenerator).operations),
     ab : (1..MaxOperand) \X (1..MaxOperand),
     wrong : IF s.gameMode = "shoot"
             THEN {<<d1, d2>> : d1, d2 \in [offset : {1, 5}, sign : {-1, 1}]}
             ELSE {<<>>},
     js : IF s.gameMode = "shoot" THEN (0..1) \X (0..2) \X (0..3) ELSE {<<>>}]

\* a scene that init and create have set up, a delayed call about to run: the first
\* one, or a later one that finds a target of the problem before still in play
SpawnInit ==
    /\ scene \in {[create(init(Ctx(NewScene("part_003")),
                                [mode |-> mode, difficulty |-> difficulty])).s
                        EXCEPT !.status = "running", !.time = <<>>, !.enemies = enemies] :
                      mode \in {"shoot", "type"}, difficulty \in 1..2,
                      enemies \in {<<>>, <<createEnemy(7, FALSE)>>}}
    /\ listeners = 1
    /\ elapsed = TimeCap
    /\ pending = <<>>
    /\ host = [NewHost(1, <<>>) EXCEPT !.screen = "game"]
    /\ emitted = <<>>
    /\ resolved = <<>>
    /\ hist = NewHist
    /\ call = [pc |-> "spawn"]

\* the delayed call runs generateNewProblem
callGenerateNewProblem ==
    /\ call.pc = "spawn"
    /\ \E rnd \in SpawnRandoms(scene) :
          LET c == nextProblemCallback(Ctx(scene), rnd)
          IN /\ scene' = c.s
             /\ emitted' = c.out
    /\ call' = [pc |-> "done", fn |-> "generateNewProblem"]
    /\ UNCHANGED <<listeners, elapsed, pending, host, resolved, hist>>

SpawnNext == callGenerateNewProblem

SpawnSpec == SpawnInit /\ [][SpawnNext]_vars

----------------------------------------------------------------------------
(* Properties *)

\* C1: a resolution as correct, with s the streak after the increment, raises
\* correctAnswers and streak by 1, makes bestStreak the larger of bestStreak and s,
\* adds xpDelta = 10 + timeBonus + min(20, 2s) to xpEarned (timeBonus 5 within 3000 ms
\* of the issue of the problem, else 0), adds 100 + 5 min(20, 2s) to score, leaves the
\* lives alone, and publishes answer:correct with exactly this xpDelta and s.
C1_CorrectAnswerScoring ==
    \A i \in 1..Len(resolved) :
        resolved[i].kind = "correct" =>
            LET r == resolved[i]
                s == r.pre.streak + 1
                timeBonus == IF r.at < 3000 THEN 5 ELSE 0
                xpDelta == 10 + timeBonus + Min(20, 2 * s)
            IN /\ r.post.correctAnswers = r.pre.correctAnswers + 1
               /\ r.post.streak = s
               /\ r.post.bestStreak = Max(r.pre.bestStreak, s)
               /\ r.post.xpEarned = r.pre.xpEarned + xpDelta
               /\ r.post.score = r.pre.score + 100 + 5 * Min(20, 2 * s)
               /\ r.post.playerLives = r.pre.playerLives
               /\ \E k \in 1..Len(r.events) : r.events[k].type = "answer:correct"
               /\ \A k \in 1..Len(r.events) :
                      r.events[k].type = "answer:correct" =>
                          r.events[k].data = [xp |-> xpDelta, streak |-> s]

\* a correct resolution at a streak where the cap of the streak bonus binds
C1_Witness ==
    \E i \in 1..Len(resolved) :
        /\ resolved[i].kind = "correct"
        /\ 2 * resolved[i].post.streak > 20
        /\ resolved[i].at < 3000

\* the first resolution of a type-mode session is a correct one, made within the
\* time-bonus window
C2_FirstCorrectInWindow ==
    /\ scene.gameMode = "type"
    /\ hist.corrects = 1 /\ hist.wrongs = 0
    /\ resolved # <<>>
    /\ resolved[1].kind = "correct" /\ resolved[1].by = "typed"
    /\ resolved[1].at < 3000

\* C2 as stated: in a freshly started type-mode session the correct answer to the
\* first problem, submitted within the time-bonus window, publishes answer:correct
\* with xpDelta = 15.
C2_FirstCorrectXp15 ==
    C2_FirstCorrectInWindow =>
        \E k \in 1..Len(emitted) :
            emitted[k].type = "answer:correct" /\ emitted[k].data.xp = 15

\* C2 amended: the event carries xpDelta = 17 (10 base + 5 time bonus + 2 streak
\* bonus, the streak being 1 when the bonus is computed) and streak 1.
C2_FirstCorrectXp17 ==
    C2_FirstCorrectInWindow =>
        /\ \E k \in 1..Len(emitted) : emitted[k].type = "answer:correct"
        /\ \A k \in 1..Len(emitted) :
               emitted[k].type = "answer:correct" =>
                   emitted[k].data = [xp |-> 17, streak |-> 1]

C2_Witness ==
    /\ C2_FirstCorrectInWindow
    /\ resolved[1].pre.currentProblem # <<>>
    /\ scene.xpEarned = 17

\* the xp of n correct answers in a row, each within the time-bonus window
RECURSIVE SumXp(_)
SumXp(n) == IF n = 0 THEN 0 ELSE SumXp(n - 1) + 10 + 5 + Min(20, 2 * n)

\* C3: after n >= 1 correct answers from the start of a session, each resolved within
\* 1 second of the issue of its problem and with no incorrect resolution in between,
\* streak = n, bestStreak >= n, correctAnswers = n and xpEarned is the sum over the
\* steps k = 1..n of 10 + 5 + min(20, 2k).
C3_FastStreak ==
    (hist.corrects >= 1 /\ hist.wrongs = 0 /\ hist.allFast) =>
        /\ scene.streak = hist.corrects
        /\ scene.bestStreak >= hist.corrects
        /\ scene.correctAnswers = hist.corrects
        /\ scene.xpEarned = SumXp(hist.corrects)

\* eleven such answers in a row: the last one is past the cap of the streak bonus
C3_Witness ==
    /\ hist.corrects = 11 /\ hist.wrongs = 0 /\ hist.allFast
    /\ scene.xpEarned = 295

\* C4: a resolution as incorrect (a distractor hit, a typed value that differs, the
\* correct target missed) sets streak to 0 and takes exactly one life, and leaves
\* score, xpEarned, correctAnswers, bestStreak and the current problem alone.
C4_WrongAnswerFrame ==
    \A i \in 1..Len(resolved) :
        resolved[i].kind = "wrong" =>
            LET r == resolved[i]
            IN /\ r.post.streak = 0
               /\ r.post.playerLives = r.pre.playerLives - 1
               /\ r.post.score = r.pre.score
               /\ r.post.xpEarned = r.pre.xpEarned
               /\ r.post.correctAnswers = r.pre.correctAnswers
               /\ r.post.bestStreak = r.pre.bestStreak
               /\ r.post.currentProblem = r.pre.currentProblem

\* a distractor is hit while a streak is running
C4_Witness ==
    \E i \in 1..Len(resolved) :
        /\ resolved[i].kind = "wrong" /\ resolved[i].by = "bullet"
        /\ resolved[i].pre.streak > 0 /\ resolved[i].pre.score > 0
        /\ resolved[i].pre.currentProblem # <<>>

\* C5: starting a session (init and create), in either mode and also on a restart
\* after a session that ended or was quit, sets score, streak, bestStreak,
\* correctAnswers and xpEarned to 0 and the lives to 5, clears the game-over and
\* paused flags, and leaves no current problem until the first problem is issued.
C5_SessionStartResets ==
    /\ hist.last = "startScene" =>
           /\ scene.score = 0 /\ scene.streak = 0 /\ scene.bestStreak = 0
           /\ scene.correctAnswers = 0 /\ scene.xpEarned = 0
           /\ scene.playerLives = 5
           /\ ~scene.isGameOver /\ ~scene.isPaused
           /\ scene.currentProblem = <<>>
    /\ (scene.status = "running" /\ ~hist.issued) => scene.currentProblem = <<>>

\* C6: a shoot-mode session at difficulty 1 with incorrect resolutions only ends
\* exactly at the fifth of them, not earlier and not later, and its summary carries
\* score 0, correct 0, xpEarned 0 and bestStreak 0.
C6_FiveWrongsEnd ==
    (scene.status # "none" /\ scene.gameMode = "shoot" /\ scene.difficulty = 1
     /\ hist.corrects = 0) =>
        /\ scene.isGameOver <=> hist.wrongs >= 5
        /\ hist.endedAt # <<>> => hist.endedAt[1].wrongs = 5
        /\ hist.lastOver # <<>> =>
               hist.lastOver[1] = [score |-> 0, correct |-> 0, xpEarned |-> 0, bestStreak |-> 0]

\* C7: whatever the order and timing of player actions, frames and timers, several
\* hits within one frame included, a session publishes game:over at most once, and
\* once when its lives have reached 0; the summary carries the session's final score,
\* correct count, xpEarned and bestStreak.
C7_OneSummary ==
    /\ hist.overs <= 1
    /\ (scene.playerLives <= 0 /\ ~hist.quit) => hist.overs >= 1
    /\ hist.lastOver # <<>> =>
           hist.lastOver[1] = [score |-> scene.score, correct |-> scene.correctAnswers,
                               xpEarned |-> scene.xpEarned, bestStreak |-> scene.bestStreak]

\* the counters of a session
Counters(v) ==
    [score |-> v.score, streak |-> v.streak, bestStreak |-> v.bestStreak,
     correctAnswers |-> v.correctAnswers, xpEarned |-> v.xpEarned,
     playerLives |-> v.playerLives]

\* C8: once a session has ended by running out of lives, no submission, hit, miss,
\* frame or delayed callback changes score, streak, bestStreak, correctAnswers,
\* xpEarned or the lives, and no problem:new, answer:correct or answer:wrong is
\* published for it any more.
C8_EndedIsTerminal ==
    hist.endedAt # <<>> =>
        /\ Counters(scene) = Counters(hist.endedAt[1].view)
        /\ hist.afterEnd = 0

\* C9: a pause followed at once by a resume leaves score, streak, the lives and the
\* current problem as they were before the pause.
C9_PauseResumeIdentity ==
    (hist.last = "resumeGame" /\ hist.atPause # <<>>) =>
        /\ scene.score = hist.atPause[1].score
        /\ scene.streak = hist.atPause[1].streak
        /\ scene.playerLives = hist.atPause[1].playerLives
        /\ scene.currentProblem = hist.atPause[1].currentProblem

\* a session with a score, a streak, a life lost and a problem on display has been
\* paused and resumed at once
C9_Witness ==
    /\ hist.last = "resumeGame" /\ hist.atPause # <<>>
    /\ scene.status = "running" /\ ~scene.isPaused
    /\ scene.score > 0 /\ scene.streak > 0
    /\ scene.playerLives < 3
    /\ scene.currentProblem # <<>>

\* C10: while a session is paused, nothing that arrives (a submission, a frame, a
\* delayed callback) changes score, streak, the lives, xpEarned, correctAnswers or
\* the current problem, and no problem:new, answer:correct, answer:wrong or game:over
\* is published.
C10_PausedIsFrozen ==
    (scene.isPaused /\ hist.atPause # <<>>) =>
        /\ View(scene) = hist.atPause[1]
        /\ hist.sincePause = 0

\* an answer has been submitted to a paused type-mode session that shows a problem
\* and has a delayed call outstanding
C10_Witness ==
    /\ scene.isPaused /\ scene.status = "paused" /\ hist.atPause # <<>>
    /\ hist.last = "submitAnswer"
    /\ scene.gameMode = "type"
    /\ scene.currentProblem # <<>>
    /\ scene.time # <<>>

\* C11: the time spent paused does not count toward the 3000 ms window: a problem
\* resolved as correct after less than 3000 ms of unpaused time since its issue earns
\* the time bonus of 5, however long the session was paused in between.
C11_PauseFreezesTimeBonus ==
    \A i \in 1..Len(resolved) :
        (resolved[i].kind = "correct" /\ hist.played < 3000) =>
            \E k \in 1..Len(resolved[i].events) :
                /\ resolved[i].events[k].type = "answer:correct"
                /\ resolved[i].events[k].data.xp = 10 + 5 + Min(20, 2 * resolved[i].post.streak)

C13_QuitDiscardsProblem ==
    hist.quit =>
        /\ scene.currentProblem = <<>>
        /\ scene.enemies = <<>>
        /\ \A i \in 1..Len(resolved) :
               Counters(resolved[i].post) = Counters(resolved[i].pre)
        /\ ~published(emitted, "answer:correct")
        /\ ~published(emitted, "answer:wrong")

\* C14: in type mode there is no timeout penalty: a life is lost and the streak is
\* reset only by a submitted value that differs from the correct answer; the
\* placeholder target leaving the play bounds without a submission costs no life and
\* publishes no answer:wrong.
C14_NoTimeoutPenaltyInTypeMode ==
    scene.gameMode = "type" =>
        \A i \in 1..Len(resolved) :
            resolved[i].kind = "wrong" => resolved[i].by = "typed"

\* the target the k-th bullet of a frame reaches, the targets reached before it
\* having been removed
RECURSIVE aimed(_, _, _)
aimed(enemies, hits, k) ==
    IF k = 1 THEN enemies[Head(hits)]
    ELSE aimed(RemoveAt(enemies, Head(hits)), Tail(hits), k - 1)

\* C15: in a frame of a running shoot-mode session, the targets of the current
\* problem leaving the play bounds make exactly one incorrect resolution (one life
\* lost, streak reset) if the correct target was still in play and none if only
\* distractors were left; a bullet reaching a target makes a correct resolution if
\* the target's value equals the current problem's answer and an incorrect one
\* otherwise.
C15_MissAndHitResolution ==
    [][ (scene.gameMode = "shoot" /\ ~scene.isGameOver /\ ~scene.isPaused) =>
          \A hits \in Hits(scene.enemies), fell \in BOOLEAN :
              Update(hits, fell) =>
                  LET missed == {i \in 1..Len(resolved') : resolved'[i].by = "missed"}
                      inPlay == \E k \in 1..Len(scene.enemies) : scene.enemies[k].isCorrect
                  IN /\ Cardinality(missed) = IF fell /\ inPlay THEN 1 ELSE 0
                     /\ \A i \in missed :
                            /\ resolved'[i].kind = "wrong"
                            /\ resolved'[i].post.playerLives = resolved'[i].pre.playerLives - 1
                            /\ resolved'[i].post.streak = 0
                     /\ Len(resolved') = Len(hits) + Cardinality(missed)
                     /\ \A k \in 1..Len(hits) :
                            /\ resolved'[k].by = "bullet"
                            /\ resolved'[k].kind = "correct" <=>
                                   aimed(scene.enemies, hits, k).answerValue
                                       = scene.currentProblem[1].answer
      ]_vars

\* the targets of a shoot-mode problem have left the play bounds with the correct
\* one among them, after a distractor had been shot
C15_Witness ==
    /\ scene.gameMode = "shoot" /\ scene.status = "running"
    /\ Len(resolved) = 1 /\ resolved[1].by = "missed"
    /\ scene.enemies = <<>>
    /\ hist.wrongs >= 2
    /\ scene.currentProblem # <<>>

\* C16: a typed answer that is not a number is treated as not matching the correct
\* answer: submitting it to a running type-mode session with a problem pending makes
\* an incorrect resolution (answer:wrong published, streak reset, one life lost); it
\* is not dropped.
C16_UnparsableIsWrong ==
    [][ \A text \in Typed :
            ( /\ parseInt(text) = <<>>
              /\ listeners > 0 /\ scene.status = "running"
              /\ scene.gameMode = "type" /\ scene.currentProblem # <<>>
              /\ ~scene.isGameOver /\ ~scene.isPaused
              /\ submitAnswer(text) ) =>
                /\ published(emitted', "answer:wrong")
                /\ scene'.streak = 0
                /\ scene'.playerLives = scene.playerLives - 1
      ]_vars

\* C17: for every correctAnswer >= 1, every count in 1..5 and every outcome of the
\* random draws, generateWrongAnswers returns exactly count integers that are
\* pairwise distinct, all strictly positive, and none equal to correctAnswer,
\* correctAnswer = 1 included.
C17_WrongAnswersContract ==
    (call.pc = "done" /\ call.fn = "generateWrongAnswers" /\ call.count >= 1) =>
        /\ Len(call.result) = call.count
        /\ \A i, j \in 1..Len(call.result) : i # j => call.result[i] # call.result[j]
        /\ \A i \in 1..Len(call.result) :
               call.result[i] > 0 /\ call.result[i] # call.correctAnswer

\* five wrong answers for the correct answer 1 have been returned, the last of them
\* found by the fallback loop after the randomized one had found some
C17_Witness ==
    /\ call.pc = "done" /\ call.fn = "generateWrongAnswers"
    /\ call.correctAnswer = 1 /\ call.count = 5
    /\ Len(call.result) = 5
    /\ call.attempts = maxAttempts
    /\ call.proposed # <<>>
    /\ call.result[1] # 2

\* the i-th offset of the sequence +1, -1, +2, -2, +3, ...
delta(i) == IF i % 2 = 1 THEN (i + 1) \div 2 ELSE -(i \div 2)

\* C18: generateWrongAnswers is total: for every correctAnswer >= 1, every count >= 0
\* and every outcome of the random draws the call returns; the randomized loop makes
\* at most 100 attempts, and the fallback loop proposes correctAnswer + d for
\* d = +1, -1, +2, -2, +3, ... in this order.
C18_WrongAnswersTotal ==
    /\ [](call.fn = "generateWrongAnswers" =>
             /\ call.attempts <= 100
             /\ \A i \in 1..Len(call.proposed) : call.proposed[i] = delta(i)
             /\ call.pc = "fallback" => call.fallbackOffset = delta(Len(call.proposed) + 1))
    /\ <>(call.pc = "done")

\* a call for the correct answer 1 has returned after 100 attempts that found
\* nothing and a fallback loop that went as far as the offset +5, with the
\* candidates 0, -1, ... refused on the way
C18_Witness ==
    /\ call.pc = "done" /\ call.fn = "generateWrongAnswers"
    /\ call.correctAnswer = 1 /\ call.count = 5
    /\ call.attempts = 100
    /\ Len(call.proposed) = 9
    /\ call.result = <<2, 3, 4, 5, 6>>

\* C19: for every level 1..5, every operation and every outcome of the random draws,
\* the answer of the problem generate returns is the exact result of the operation on
\* the two operands: operand1 + operand2, operand1 - operand2, operand1 * operand2,
\* and for a division operand2 >= 1, operand1 mod operand2 = 0 and
\* answer = operand1 / operand2.
C19_AnswerIsExact ==
    (call.pc = "done" /\ call.fn = "generate") =>
        LET p == call.result
        IN /\ p.operation \in Range(config(call.level).operations)
           /\ p.operation = "addition" => p.answer = p.operand1 + p.operand2
           /\ p.operation = "subtraction" => p.answer = p.operand1 - p.operand2
           /\ p.operation = "multiplication" => p.answer = p.operand1 * p.operand2
           /\ p.operation = "division" =>
                  /\ p.operand2 >= 1
                  /\ p.operand1 % p.operand2 = 0
                  /\ p.answer * p.operand2 = p.operand1

\* the division 132 / 12 = 11 has been generated at level 5
C19_Witness ==
    /\ call.pc = "done" /\ call.fn = "generate" /\ call.level = 5
    /\ call.result.operation = "division"
    /\ call.result.operand1 = 132 /\ call.result.operand2 = 12
    /\ call.result.answer = 11

\* C20: every generated subtraction problem has operand1 >= operand2 >= 1 and
\* answer >= 0, at every level and for every pair of draws; the answer is 0 only when
\* the two draws coincide.
C20_SubtractionOrdered ==
    (call.pc = "done" /\ call.fn = "generate" /\ call.result.operation = "subtraction") =>
        /\ call.result.operand1 >= call.result.operand2
        /\ call.result.operand2 >= 1
        /\ call.result.answer >= 0
        /\ call.result.answer = 0 => call.draws[1] = call.draws[2]

\* a subtraction whose first draw was the smaller one has been generated
C20_Witness ==
    /\ call.pc = "done" /\ call.fn = "generate"
    /\ call.result.operation = "subtraction"
    /\ call.draws[1] < call.draws[2]
    /\ call.result.operand1 = call.draws[2] /\ call.result.operand2 = call.draws[1]
    /\ call.result.answer > 0

\* a generate call has returned
Generated == call.pc = "done" /\ call.fn = "generate"

\* C21 as stated: at every level 1..5 every generated problem has both operands at
\* least 1 and at most maxNumber for addition and subtraction, and at most
\* maxMultiplier for multiplication and division, the dividend of a division included.
C21_OperandsWithinBounds ==
    Generated =>
        LET p == call.result
            cfg == config(call.level)
            most == IF p.operation \in {"addition", "subtraction"}
                    THEN cfg.maxNumber ELSE cfg.maxMultiplier
        IN /\ p.operand1 >= 1 /\ p.operand1 <= most
           /\ p.operand2 >= 1 /\ p.operand2 <= most

\* C21 amended: as stated for addition, subtraction and multiplication; of a division
\* the divisor (operand2) and the quotient (the answer) are within 1..maxMultiplier,
\* and the dividend (operand1), being their product, is within
\* 1..maxMultiplier * maxMultiplier.
C21_OperandsWithinBoundsProduct ==
    Generated =>
        LET p == call.result
            cfg == config(call.level)
            most == IF p.operation \in {"addition", "subtraction"}
                    THEN cfg.maxNumber ELSE cfg.maxMultiplier
        IN /\ p.operand2 >= 1 /\ p.operand2 <= most
           /\ p.operand1 >= 1
           /\ IF p.operation = "division"
              THEN /\ p.answer >= 1 /\ p.answer <= most
                   /\ p.operand1 <= most * most
              ELSE p.operand1 <= most

\* the division 144 / 12 has been generated at level 5, where maxMultiplier is 12
C21_Witness ==
    /\ Generated /\ call.level = 5
    /\ call.result.operation = "division"
    /\ call.result.operand1 = 144 /\ call.result.operand2 = 12

\* C22: a difficulty request outside 1..5 is clamped, never rejected: for every
\* integer level the constructor and setDifficulty select the config of level
\* min(5, max(1, level)), so the generator always holds one of the five defined
\* configs and generate returns a problem.
C22_DifficultyClamped ==
    call.fn = "generate" =>
        /\ call.level = (IF call.requested < 1 THEN 1
                         ELSE IF call.requested > 5 THEN 5 ELSE call.requested)
        /\ call.level \in Levels
        /\ config(call.level).level = call.level
        /\ call.pc = "generate" => ENABLED callGenerate
        /\ call.pc = "done" =>
               call.result.operation \in Range(config(call.level).operations)

\* generate has returned a division on a generator asked for level 7
C22_Witness ==
    /\ Generated /\ call.requested = 7 /\ call.level = 5
    /\ call.result.operation = "division"

\* the operations the levels allow
allowed(level) ==
    CASE level = 1 -> {"addition"}
      [] level = 2 -> {"addition", "subtraction"}
      [] level = 3 -> {"addition", "subtraction", "multiplication"}
      [] OTHER -> {"addition", "subtraction", "multiplication", "division"}

\* C23: generate(preferredOperation) returns a problem whose operation is
\* preferredOperation when the level allows that operation, and otherwise one of the
\* allowed operations; at no level is the operation outside the level's allowed set
\* (1: addition; 2: also subtraction; 3: also multiplication; 4 and 5: all four).
C23_OperationAllowed ==
    Generated =>
        /\ call.result.operation \in allowed(call.level)
        /\ (call.preferredOperation # <<>>
            /\ call.preferredOperation[1] \in allowed(call.level)) =>
               call.result.operation = call.preferredOperation[1]

\* a level-2 generator asked for a division has returned a subtraction
C23_Witness ==
    /\ Generated /\ call.level = 2
    /\ call.preferredOperation = <<"division">>
    /\ call.result.operation = "subtraction"

\* the thresholds of the seven stages
threshold(stage) == <<0, 500, 1500, 3500, 7000, 12000, 20000>>[stage]

\* C24: for every xp >= 0, getEvolutionStage(xp) is the highest stage in 1..7 whose
\* threshold in 0, 500, 1500, 3500, 7000, 12000, 20000 is <= xp; the stage of 0 is 1,
\* of 500 is 2, of 19999 is 6 and of 20000 is 7, and the function is monotonically
\* non-decreasing in xp.
C24_StageForXp ==
    (call.pc = "done" /\ call.fn = "getEvolutionStage") =>
        /\ call.result \in 1..7
        /\ threshold(call.result) <= call.xp
        /\ \A stage \in 1..7 : threshold(stage) <= call.xp => stage <= call.result
        /\ call.xp = 0 => call.result = 1
        /\ call.xp = 500 => call.result = 2
        /\ call.xp = 19999 => call.result = 6
        /\ call.xp = 20000 => call.result = 7
        /\ call.xp > 0 => getEvolutionStage(call.xp - 1) <= call.result

\* the stage of 20000 xp has been looked up, and is 7
C24_Witness ==
    /\ call.pc = "done" /\ call.fn = "getEvolutionStage"
    /\ call.xp = 20000 /\ call.result = 7

\* C25: for every xp >= 0, getXPToNextEvolution(xp, stage) is
\* max(0, threshold(stage + 1) - xp) for a stage in 1..6 and 0 at the final stage 7;
\* it is never negative.
C25_XpToNext ==
    (call.pc = "done" /\ call.fn = "getXPToNextEvolution") =>
        /\ call.stage <= 6 =>
               call.result = (IF threshold(call.stage + 1) > call.xp
                              THEN threshold(call.stage + 1) - call.xp ELSE 0)
        /\ call.stage = 7 => call.result = 0
        /\ call.result >= 0

\* the xp to the next stage has been looked up for a profile at stage 6 whose xp is
\* past the last threshold
C25_Witness ==
    /\ call.pc = "done" /\ call.fn = "getXPToNextEvolution"
    /\ call.stage = 6 /\ call.xp > 20000 /\ call.result = 0

\* C26: for every xp >= 0 and every currentStage in 1..7, getEvolutionProgress(xp,
\* currentStage) is a percentage in [0, 100] of the way from the current stage's
\* threshold to the next one, and is 100 at the final stage.
C26_ProgressIsPercentage ==
    (call.pc = "done" /\ call.fn = "getEvolutionProgress") =>
        /\ call.result.den > 0
        /\ 0 <= call.result.num
        /\ call.result.num <= 100 * call.result.den
        /\ call.stage = 7 => call.result.num = 100 * call.result.den
        /\ (call.stage <= 6 /\ call.xp <= threshold(call.stage + 1)) =>
               call.result.num * (threshold(call.stage + 1) - threshold(call.stage))
                   = 100 * (call.xp - threshold(call.stage)) * call.result.den

\* the stage of the table that an xp total belongs to
stageOf(xp) ==
    CHOOSE stage \in 1..7 :
        /\ threshold(stage) <= xp
        /\ stage < 7 => xp < threshold(stage + 1)

\* C27: when the host merges a terminal summary into the profile, the profile's xp
\* grows by the whole xpEarned and its stage becomes the stage of the new total in one
\* move, however many thresholds were crossed; the evolution screen is shown exactly
\* when the stage after is greater than the stage before, and then the transition
\* recorded is the single {from: stage before, to: stage after}.
C27_StageComputedOnce ==
    [][publishGameOver =>
          LET before == host.currentProfile[1].progress
              after == host'.currentProfile[1].progress
          IN /\ after.xp = before.xp + call.data.xpEarned
             /\ after.evolutionStage = stageOf(after.xp)
             /\ host'.screen \in {"evolution", "gameover"}
             /\ host'.screen = "evolution" <=> after.evolutionStage > before.evolutionStage
             /\ host'.screen = "evolution" =>
                    host'.evolutionData = [from |-> before.evolutionStage,
                                           to |-> after.evolutionStage]
             /\ host'.screen = "gameover" => host'.evolutionData = host.evolutionData]_vars

\* a summary has been merged that took the profile over more than one threshold
C27_Witness ==
    /\ call.pc = "merged"
    /\ host.screen = "evolution"
    /\ host.evolutionData.to >= host.evolutionData.from + 2
    /\ host.currentProfile[1].progress.evolutionStage = host.evolutionData.to

\* C28: emit(event, data) invokes every callback subscribed to the event at that
\* moment exactly once and invokes no callback that is not subscribed to it.
C28_EmitReachesEverySubscriber ==
    [][\A event \in Events :
          emit(event) =>
              LET delivery == call'.emitted[1]
              IN /\ Range(delivery.invoked) = Range(call.listeners[event])
                 /\ Len(delivery.invoked) = Len(call.listeners[event])]_vars

\* the stored text of a profile is missing or malformed: no item, an empty text, a
\* text that is not JSON, or the JSON text of something that is not an object
malformedOrMissing(item) ==
    \/ item = <<>>
    \/ ~item[1].json
    \/ item[1].value.type # "object"

\* C29: getProfile of a profile whose stored data is missing or malformed throws
\* nothing and returns a profile with the progress of createDefaultProfile (xp 0,
\* stage 1, totals 0), never null.
C29_MalformedLoadsDefault ==
    (call.pc = "done" /\ call.fn = "getProfile" /\ malformedOrMissing(call.before.profile))
        => /\ ~call.thrown
           /\ call.result # <<>>
           /\ call.result[1].progress = <<createDefaultProfile.progress>>

\* the first event of a type among those a step published
first(out, type) == out[CHOOSE i \in 1..Len(out) :
                           /\ out[i].type = type
                           /\ \A j \in 1..(i - 1) : out[j].type # type]

\* C30: when a problem has been answered correctly, the next problem:new event the
\* running session publishes carries an equation other than that problem's.
C30_NextEquationDiffers ==
    [][(/\ hist.answered # <<>>
        /\ hist'.last # "startScene"
        /\ published(emitted', "problem:new"))
           => first(emitted', "problem:new").data.equation # hist.answered[1]]_vars

\* how many targets carry a value
targetsOf(enemies, value) ==
    Cardinality({i \in 1..Len(enemies) : enemies[i].answerValue = value})

occurrences(values, value) ==
    Cardinality({i \in 1..Len(values) : values[i] = value})

\* C32: in shoot mode a problem is presented as exactly 4 targets, whose values are
\* the correct answer and the 3 distractors of the problem:new event, each as often as
\* it occurs among them; exactly one target is marked correct, and its value is the
\* problem's answer, also when the answer is 0.  In type mode exactly one placeholder
\* target is presented.
C32_TargetsOfProblem ==
    (call.pc = "done" /\ call.fn = "generateNewProblem") =>
        LET problem == scene.currentProblem[1]
            event == emitted[1].data
            marked == {i \in 1..Len(scene.enemies) : scene.enemies[i].isCorrect}
        IN /\ emitted[1].type = "problem:new" /\ event.answer = problem.answer
           /\ IF scene.gameMode = "shoot"
              THEN LET answers == <<problem.answer>> \o event.wrongAnswers
                   IN /\ Len(scene.enemies) = 4
                      /\ Len(event.wrongAnswers) = 3
                      /\ \A value \in Range(answers) \cup
                                       {e.answerValue : e \in Range(scene.enemies)} :
                             targetsOf(scene.enemies, value) = occurrences(answers, value)
                      /\ Cardinality(marked) = 1
                      /\ \A i \in marked :
                             scene.enemies[i].answerValue = problem.answer
              ELSE /\ Len(scene.enemies) = 1
                   /\ marked = {1}

\* a problem with answer 0 is presented in shoot mode, the correct target not first
C32_Witness ==
    /\ call.pc = "done" /\ call.fn = "generateNewProblem"
    /\ scene.gameMode = "shoot"
    /\ scene.currentProblem[1].answer = 0
    /\ Len(scene.enemies) = 4
    /\ ~scene.enemies[1].isCorrect

\* C34: the lives of a running session stay within 0..5 in every state, whatever wrong hits,
\* wrong submissions and missed targets a step combines, and a step publishes
\* game:over only when it has brought the lives to 0.
C34_LivesWithinBounds ==
    scene.status = "running" =>
        /\ 0 <= scene.playerLives /\ scene.playerLives <= 5
        /\ published(emitted, "game:over") => scene.playerLives = 0

\* C35: an answer:submit event that a type-mode session accepts (the scene runs, is
\* not paused or over and has a problem) is resolved exactly once, in a first session
\* and in every later one.
C35_OneResolutionPerSubmit ==
    [][\A text \in Typed :
          (/\ submitAnswer(text)
           /\ parseInt(text) # <<>>
           /\ scene.status = "running" /\ scene.gameMode = "type"
           /\ ~scene.isGameOver /\ ~scene.isPaused
           /\ scene.currentProblem # <<>>)
              => Len(resolved') = 1]_vars

\* the resolutions of a step that credited an answer as correct
credits(log) == Cardinality({i \in 1..Len(log) : log[i].kind = "correct"})

\* C36: a problem is credited as correct at most once: a step credits at most one
\* answer, and none for a problem that has already been credited since it was issued,
\* also when the correct answer is submitted again before the next problem.
C36_CreditedOnce ==
    [][credits(resolved') <= IF hist.answered = <<>> THEN 1 ELSE 0]_vars

\* C37: at most one delayed next-problem call is pending at any time in a running
\* session.
C37_OneDelayedCall ==
    scene.status = "running" => Len(scene.time) <= 1

\* C38: in every state of a session 0 <= streak <= bestStreak <= correctAnswers,
\* 110 * correctAnswers <= score <= 200 * correctAnswers and
\* 12 * correctAnswers <= xpEarned <= 35 * correctAnswers (so score and xpEarned are
\* not negative); and within a session score, xpEarned, correctAnswers and bestStreak
\* never decrease.
C38_CountersOrdered ==
    /\ [](/\ 0 <= scene.streak /\ scene.streak <= scene.bestStreak
           /\ scene.bestStreak <= scene.correctAnswers
           /\ 110 * scene.correctAnswers <= scene.score
           /\ scene.score <= 200 * scene.correctAnswers
           /\ 12 * scene.correctAnswers <= scene.xpEarned
           /\ scene.xpEarned <= 35 * scene.correctAnswers)
    /\ [][hist'.last # "startScene" =>
              /\ scene'.score >= scene.score
              /\ scene'.xpEarned >= scene.xpEarned
              /\ scene'.correctAnswers >= scene.correctAnswers
              /\ scene'.bestStreak >= scene.bestStreak]_vars

\* a session has credited ten answers and lost its streak on the way
C38_Witness ==
    /\ scene.correctAnswers >= 10
    /\ scene.streak < scene.bestStreak
    /\ scene.streak > 0
    /\ hist.wrongs > 0

\* C39: while a session runs, once the events of a step have been delivered the
\* host's gameState has the score, streak, lives, xpEarned and correct count of the
\* session.
C39_MirrorTracksSession ==
    (scene.status = "running" /\ pending = <<>>) =>
        /\ host.gameState.score = scene.score
        /\ host.gameState.streak = scene.streak
        /\ host.gameState.lives = scene.playerLives
        /\ host.gameState.xpEarned = scene.xpEarned
        /\ host.gameState.correct = scene.correctAnswers

\* a running session that is not over has credited an answer and not yet issued the
\* next problem
awaitingNext ==
    /\ scene.status = "running" /\ ~scene.isGameOver
    /\ hist.answered # <<>>

\* C33: a step that publishes answer:correct does not publish problem:new, and a
\* running session that has published answer:correct goes on to publish problem:new
\* unless it is ended, quit or paused first (and again once it is resumed).
C33_NextProblemFollows ==
    /\ [](published(emitted, "answer:correct") => ~published(emitted, "problem:new"))
    /\ (awaitingNext ~> ~awaitingNext)

\* an answer was credited, and the step just taken has issued the problem after it
C33_Witness ==
    /\ scene.status = "running"
    /\ hist.corrects > 0 /\ hist.answered = <<>>
    /\ published(emitted, "problem:new")

C40_ProfileSumsSessions ==
    /\ [](host.currentProfile[1].progress.evolutionStage
              = stageOf(host.currentProfile[1].progress.xp))
    /\ [][LET before == host.currentProfile[1].progress
              after == host'.currentProfile[1].progress
          IN /\ after.xp >= before.xp
             /\ after.evolutionStage >= before.evolutionStage
             /\ IF hist.overs = 0 /\ hist'.overs > 0
                THEN LET over == first(emitted', "game:over").data
                     IN /\ after.xp = before.xp + over.xpEarned
                        /\ after.bestStreak = Max(before.bestStreak, over.bestStreak)
                ELSE /\ after.xp = before.xp
                     /\ after.bestStreak = before.bestStreak]_vars

====
